---- MODULE Spec2Model ----
(***************************************************************************)
(* Model of the aggregation core of the tokenization newsletter            *)
(* (src/src/filter.py): fuzzy title matching, deduplication, relevance     *)
(* scoring, ranking with reserved non-academic slots.                      *)
(*                                                                         *)
(* Text is a sequence of one-character strings.  Records are Python dicts: *)
(* functions whose domain is the set of keys that are present.  The dicts  *)
(* are mutable and shared by reference, so the model keeps a heap (object  *)
(* id -> dict) and lists are sequences of object ids.                      *)
(*                                                                         *)
(* Scores are floats in the source; the model keeps them in hundredths     *)
(* (0.20 is 20).  Every weight and cap of the scorer is a whole number of  *)
(* hundredths, so the model computes the exact real value; the last-bit    *)
(* rounding of the float sum is not modelled.                              *)
(***************************************************************************)
EXTENDS Integers, Sequences, FiniteSets, TLC

(***************************************************************************)
(* Bounds of the model.                                                    *)
(***************************************************************************)
MaxPapers == 3
MaxRankPapers == 4
MaxItems == 3
\* longest input list of classify_topic calls
MaxClassifyPapers == 2
\* longest input list of categorize_selections calls: one record more than
\* the largest section holds
MaxCatPapers == 6
\* longest list of collected records in run_pipeline
MaxPipelinePapers == 4
\* longest list built from the three records of the quick test
MaxScenarioPapers == 3
\* longest list of records with absent fields
MaxAbsentPapers == 2
\* longest title of titles_match calls
MaxTitleLen == 3
\* longest input list of the repeated calls
MaxTwicePapers == 3
\* longest input list given to the functions that test the source
MaxSourcePapers == 3
\* longest input list of the calls whose writes are compared
MaxFramePapers == 3
\* longest input list given to both ranking functions
MaxBothPapers == 3
\* longest input list of records whose titles normalize to nothing
MaxEmptyTitlePapers == 3
\* longest list of collected records in the run that is summarized
MaxSummaryPapers == 3

(***************************************************************************)
(* Characters and strings.                                                 *)
(***************************************************************************)
Ascii ==
  << " ", "!", "<dquote>", "#", "$", "%", "&", "'", "(", ")", "*", "+", ",",
     "-", ".", "/", "0", "1", "2", "3", "4", "5", "6", "7", "8", "9", ":", ";",
     "<", "=", ">", "?", "@", "A", "B", "C", "D", "E", "F", "G", "H", "I",
     "J", "K", "L", "M", "N", "O", "P", "Q", "R", "S", "T", "U", "V", "W",
     "X", "Y", "Z", "[", "<backslash>", "]", "^", "_", "<backtick>",
     "a", "b", "c", "d", "e",
     "f", "g", "h", "i", "j", "k", "l", "m", "n", "o", "p", "q", "r", "s",
     "t", "u", "v", "w", "x", "y", "z", "{", "|", "}", "~" >>

\* code point of a printable ASCII character (" " is 32); the double quote,
\* the backslash and the backtick keep their places in the table under a name
Ord(c) == 31 + CHOOSE i \in 1..Len(Ascii) : Ascii[i] = c

\* "A".."Z"
UpperChars == { Ascii[i] : i \in 34..59 }

\* "a".."z" and "0".."9"
LowerAlnumChars == { Ascii[i] : i \in (66..91) \cup (17..26) }

IsUpper(c) == c \in UpperChars
IsLowerAlnum(c) == c \in LowerAlnumChars
IsSpace(c) == c = " "

\* str.lower() on one character
LowerChar(c) == IF IsUpper(c) THEN Ascii[Ord(c) + 32 - 31] ELSE c

\* str.lower(), by halves (the recursion is as deep as the logarithm of the
\* length)
RECURSIVE Lower(_)
Lower(s) ==
  IF s = <<>> THEN <<>>
  ELSE IF Len(s) = 1 THEN <<LowerChar(s[1])>>
  ELSE LET mid == Len(s) \div 2
       IN Lower(SubSeq(s, 1, mid)) \o Lower(SubSeq(s, mid + 1, Len(s)))

RECURSIVE LStrip(_)
LStrip(s) == IF s # <<>> /\ IsSpace(Head(s)) THEN LStrip(Tail(s)) ELSE s

RECURSIVE RStrip(_)
RStrip(s) ==
  IF s # <<>> /\ IsSpace(s[Len(s)]) THEN RStrip(SubSeq(s, 1, Len(s) - 1)) ELSE s

\* str.strip()
Strip(s) == RStrip(LStrip(s))

\* re.sub(r"[^a-z0-9\s]", "", s)
RemoveOther(s) == SelectSeq(s, LAMBDA c : IsLowerAlnum(c) \/ IsSpace(c))

\* re.sub(r"\s+", " ", s)
RECURSIVE CollapseSpaces(_)
CollapseSpaces(s) ==
  IF s = <<>> THEN <<>>
  ELSE IF IsSpace(Head(s))
       THEN <<" ">> \o CollapseSpaces(LStrip(s))
       ELSE <<Head(s)>> \o CollapseSpaces(Tail(s))

\* variant: the title is not lowercased
normalize_title_NoLower(title) == CollapseSpaces(RemoveOther(Strip(title)))

normalize_title(title) == CollapseSpaces(RemoveOther(Strip(Lower(title))))

\* x in y for Python strings
Contains(kw, text) ==
  \E i \in 0..(Len(text) - Len(kw)) :
    \A j \in 1..Len(kw) : text[i + j] = kw[j]

\* s < t for Python strings (code point order)
RECURSIVE StrLess(_, _)
StrLess(s, t) ==
  IF t = <<>> THEN FALSE
  ELSE IF s = <<>> THEN TRUE
  ELSE IF Head(s) = Head(t) THEN StrLess(Tail(s), Tail(t))
  ELSE Ord(Head(s)) < Ord(Head(t))

(***************************************************************************)
(* difflib.SequenceMatcher(None, a, b).ratio() as titles_match uses it.    *)
(* No junk function is given and the autojunk heuristic starts at 200      *)
(* characters, so every character of b takes part.                         *)
(***************************************************************************)
\* length of the common run of a[i..ahi] and b[j..bhi]
RECURSIVE RunLen(_, _, _, _, _, _)
RunLen(a, b, i, ahi, j, bhi) ==
  IF i <= ahi /\ j <= bhi /\ a[i] = b[j]
  THEN 1 + RunLen(a, b, i + 1, ahi, j + 1, bhi)
  ELSE 0

\* find_longest_match: the longest block; of those the one starting earliest
\* in a; of those the one starting earliest in b
find_longest_match(a, b, alo, ahi, blo, bhi) ==
  LET Cands == { <<i, j, RunLen(a, b, i, ahi, j, bhi)>> :
                   <<i, j>> \in { c \in (alo..ahi) \X (blo..bhi) :
                                    a[c[1]] = b[c[2]] } }
      Better(c, d) == \/ c[3] > d[3]
                      \/ c[3] = d[3] /\ c[1] < d[1]
                      \/ c[3] = d[3] /\ c[1] = d[1] /\ c[2] <= d[2]
  IN IF Cands = {} THEN <<alo, blo, 0>>
     ELSE CHOOSE c \in Cands : \A d \in Cands : Better(c, d)

\* get_matching_blocks: total size of the blocks found by splitting around
\* the longest match
RECURSIVE MatchedChars(_, _, _, _, _, _)
MatchedChars(a, b, alo, ahi, blo, bhi) ==
  IF alo > ahi \/ blo > bhi THEN 0
  ELSE LET m == find_longest_match(a, b, alo, ahi, blo, bhi)
       IN IF m[3] = 0 THEN 0
          ELSE m[3]
               + MatchedChars(a, b, alo, m[1] - 1, blo, m[2] - 1)
               + MatchedChars(a, b, m[1] + m[3], ahi, m[2] + m[3], bhi)

\* variant: two empty sequences have ratio 0
RatioAtLeast_EmptyUnlike(a, b, threshold) ==
  LET matches == MatchedChars(a, b, 1, Len(a), 1, Len(b))
      length == Len(a) + Len(b)
  IN IF length = 0 THEN 0 >= threshold
     ELSE 200 * matches >= threshold * length

\* ratio() >= threshold, with the threshold in hundredths:
\* 2.0 * matches / length, and 1.0 when both strings are empty
RatioAtLeast(a, b, threshold) ==
  LET matches == MatchedChars(a, b, 1, Len(a), 1, Len(b))
      length == Len(a) + Len(b)
  IN IF length = 0 THEN 100 >= threshold
     ELSE 200 * matches >= threshold * length

DefaultThreshold == 85

titles_match(title1, title2) ==
  RatioAtLeast(normalize_title(title1), normalize_title(title2),
               DefaultThreshold)

(***************************************************************************)
(* Dicts.                                                                  *)
(***************************************************************************)
\* dict.get(k, d)
get(p, k, d) == IF k \in DOMAIN p THEN p[k] ELSE d

\* p[k] = v
Put(p, k, v) == (k :> v) @@ p

Min2(x, y) == IF x <= y THEN x ELSE y

(***************************************************************************)
(* compute_relevance_score, in hundredths.                                 *)
(***************************************************************************)
RECURSIVE CountHits(_, _)
CountHits(keywords, text) ==
  IF keywords = <<>> THEN 0
  ELSE (IF Contains(Lower(Head(keywords)), text) THEN 1 ELSE 0)
       + CountHits(Tail(keywords), text)

\* variant: the title bonus is not capped
compute_relevance_score_UncappedTitle(paper, primary_keywords, secondary_keywords) ==
  LET text == Lower(get(paper, "title", <<>>) \o <<" ">>
                    \o get(paper, "abstract", <<>>))
      primary_matches == CountHits(primary_keywords, text)
      title_lower == Lower(get(paper, "title", <<>>))
      title_primary == CountHits(primary_keywords, title_lower)
      secondary_matches == CountHits(secondary_keywords, text)
      citations == get(paper, "citation_count", 0)
      score == Min2(primary_matches * 20, 60)
               + title_primary * 15
               + Min2(secondary_matches * 5, 20)
               + (IF citations > 0 THEN Min2(citations * 1, 10) ELSE 0)
  IN Min2(score, 100)

\* variant: the citation boost is added without the test citations > 0
compute_relevance_score_UnguardedBoost(paper, primary_keywords, secondary_keywords) ==
  LET text == Lower(get(paper, "title", <<>>) \o <<" ">>
                    \o get(paper, "abstract", <<>>))
      primary_matches == CountHits(primary_keywords, text)
      title_lower == Lower(get(paper, "title", <<>>))
      title_primary == CountHits(primary_keywords, title_lower)
      secondary_matches == CountHits(secondary_keywords, text)
      citations == get(paper, "citation_count", 0)
      score == Min2(primary_matches * 20, 60)
               + Min2(title_primary * 15, 30)
               + Min2(secondary_matches * 5, 20)
               + Min2(citations * 1, 10)
  IN Min2(score, 100)

\* variant: the citation boost is not capped
compute_relevance_score_UncappedBoost(paper, primary_keywords, secondary_keywords) ==
  LET text == Lower(get(paper, "title", <<>>) \o <<" ">>
                    \o get(paper, "abstract", <<>>))
      primary_matches == CountHits(primary_keywords, text)
      title_lower == Lower(get(paper, "title", <<>>))
      title_primary == CountHits(primary_keywords, title_lower)
      secondary_matches == CountHits(secondary_keywords, text)
      citations == get(paper, "citation_count", 0)
      score == Min2(primary_matches * 20, 60)
               + Min2(title_primary * 15, 30)
               + Min2(secondary_matches * 5, 20)
               + (IF citations > 0 THEN citations * 1 ELSE 0)
  IN Min2(score, 100)

compute_relevance_score(paper, primary_keywords, secondary_keywords) ==
  LET text == Lower(get(paper, "title", <<>>) \o <<" ">>
                    \o get(paper, "abstract", <<>>))
      primary_matches == CountHits(primary_keywords, text)
      title_lower == Lower(get(paper, "title", <<>>))
      title_primary == CountHits(primary_keywords, title_lower)
      secondary_matches == CountHits(secondary_keywords, text)
      citations == get(paper, "citation_count", 0)
      score == Min2(primary_matches * 20, 60)
               + Min2(title_primary * 15, 30)
               + Min2(secondary_matches * 5, 20)
               + (IF citations > 0 THEN Min2(citations * 1, 10) ELSE 0)
  IN Min2(score, 100)

(***************************************************************************)
(* deduplicate_papers.  h is the heap, papers the list of object ids.      *)
(* The result is the heap after the call and the list unique.              *)
(***************************************************************************)
\* variant: the abstract does not count
Richness_AuthorsOnly(p) == Len(get(p, "authors", <<>>))

Richness(p) == Len(get(p, "abstract", <<>>)) + Len(get(p, "authors", <<>>))

\* variant: only the first accepted record is compared
MatchingPositions_FirstOnly(h, unique, paper) ==
  { i \in 1..Len(unique) :
      /\ i = 1
      /\ titles_match(get(h[paper], "title", <<>>),
                      get(h[unique[i]], "title", <<>>)) }

\* positions of unique whose title matches the title of paper
MatchingPositions(h, unique, paper) ==
  { i \in 1..Len(unique) :
      titles_match(get(h[paper], "title", <<>>),
                   get(h[unique[i]], "title", <<>>)) }

SetMin(S) == CHOOSE x \in S : \A y \in S : x <= y

\* variant: the incoming record also replaces on equal richness
DedupStep_ReplaceOnTie(st, paper) ==
  LET h == st.heap
      unique == st.unique
      M == MatchingPositions(h, unique, paper)
  IN IF M = {}
     THEN [heap |-> h, unique |-> Append(unique, paper)]
     ELSE LET i == SetMin(M)
              existing == unique[i]
          IN IF Richness(h[paper]) >= Richness(h[existing])
             THEN [heap |-> [h EXCEPT ![paper] =
                               Put(@, "also_found_in",
                                   get(h[existing], "source", ""))],
                   unique |-> [unique EXCEPT ![i] = paper]]
             ELSE [heap |-> [h EXCEPT ![existing] =
                               Put(@, "also_found_in",
                                   get(h[paper], "source", ""))],
                   unique |-> unique]

\* variant: the survivor records its own source
DedupStep_OwnSource(st, paper) ==
  LET h == st.heap
      unique == st.unique
      M == MatchingPositions(h, unique, paper)
  IN IF M = {}
     THEN [heap |-> h, unique |-> Append(unique, paper)]
     ELSE LET i == SetMin(M)
              existing == unique[i]
          IN IF Richness(h[paper]) > Richness(h[existing])
             THEN [heap |-> [h EXCEPT ![paper] =
                               Put(@, "also_found_in",
                                   get(h[paper], "source", ""))],
                   unique |-> [unique EXCEPT ![i] = paper]]
             ELSE [heap |-> [h EXCEPT ![existing] =
                               Put(@, "also_found_in",
                                   get(h[existing], "source", ""))],
                   unique |-> unique]

\* variant: the richer record is appended and the accepted one removed
DedupStep_ReplaceAtEnd(st, paper) ==
  LET h == st.heap
      unique == st.unique
      M == MatchingPositions(h, unique, paper)
  IN IF M = {}
     THEN [heap |-> h, unique |-> Append(unique, paper)]
     ELSE LET i == SetMin(M)
              existing == unique[i]
              paper_richness == Richness(h[paper])
              existing_richness == Richness(h[existing])
          IN IF paper_richness > existing_richness
             THEN [heap |-> [h EXCEPT ![paper] =
                               Put(@, "also_found_in",
                                   get(h[existing], "source", ""))],
                   unique |-> Append(SubSeq(unique, 1, i - 1)
                                     \o SubSeq(unique, i + 1, Len(unique)),
                                     paper)]
             ELSE [heap |-> [h EXCEPT ![existing] =
                               Put(@, "also_found_in",
                                   get(h[paper], "source", ""))],
                   unique |-> unique]

\* variant: the source of the merged-away record is written to source
DedupStep_MergeIntoSource(st, paper) ==
  LET h == st.heap
      unique == st.unique
      M == MatchingPositions(h, unique, paper)
  IN IF M = {}
     THEN [heap |-> h, unique |-> Append(unique, paper)]
     ELSE LET i == SetMin(M)
              existing == unique[i]
              paper_richness == Richness(h[paper])
              existing_richness == Richness(h[existing])
          IN IF paper_richness > existing_richness
             THEN [heap |-> [h EXCEPT ![paper] =
                               Put(@, "source",
                                   get(h[existing], "source", ""))],
                   unique |-> [unique EXCEPT ![i] = paper]]
             ELSE [heap |-> [h EXCEPT ![existing] =
                               Put(@, "source",
                                   get(h[paper], "source", ""))],
                   unique |-> unique]

\* variant: a record that replaces the accepted one inherits its
\* also_found_in
DedupStep_InheritFoundIn(st, paper) ==
  LET h == st.heap
      unique == st.unique
      M == MatchingPositions(h, unique, paper)
  IN IF M = {}
     THEN [heap |-> h, unique |-> Append(unique, paper)]
     ELSE LET i == SetMin(M)
              existing == unique[i]
              paper_richness == Richness(h[paper])
              existing_richness == Richness(h[existing])
          IN IF paper_richness > existing_richness
             THEN [heap |-> [h EXCEPT ![paper] =
                               Put(@, "also_found_in",
                                   get(h[existing], "also_found_in",
                                       get(h[existing], "source", "")))],
                   unique |-> [unique EXCEPT ![i] = paper]]
             ELSE [heap |-> [h EXCEPT ![existing] =
                               Put(@, "also_found_in",
                                   get(h[paper], "source", ""))],
                   unique |-> unique]

\* one iteration of the loop "for paper in papers"
DedupStep(st, paper) ==
  LET h == st.heap
      unique == st.unique
      M == MatchingPositions(h, unique, paper)
  IN IF M = {}
     THEN [heap |-> h, unique |-> Append(unique, paper)]
     ELSE LET i == SetMin(M)
              existing == unique[i]
              paper_richness == Richness(h[paper])
              existing_richness == Richness(h[existing])
          IN IF paper_richness > existing_richness
             THEN [heap |-> [h EXCEPT ![paper] =
                               Put(@, "also_found_in",
                                   get(h[existing], "source", ""))],
                   unique |-> [unique EXCEPT ![i] = paper]]
             ELSE [heap |-> [h EXCEPT ![existing] =
                               Put(@, "also_found_in",
                                   get(h[paper], "source", ""))],
                   unique |-> unique]

\* the state of the loop after the first k papers
RECURSIVE DedupLoop(_, _, _)
DedupLoop(h, papers, k) ==
  IF k = 0 THEN [heap |-> h, unique |-> <<>>]
  ELSE DedupStep(DedupLoop(h, papers, k - 1), papers[k])

deduplicate_papers(h, papers) == DedupLoop(h, papers, Len(papers))

(***************************************************************************)
(* classify_topic.                                                         *)
(***************************************************************************)
OTHER_KEYWORDS ==
  <<
     <<"s", "p", "e", "e", "c", "h">>,
     <<"a", "u", "d", "i", "o">>,
     <<"a", "c", "o", "u", "s", "t", "i", "c">>,
     <<"a", "s", "r">>,
     <<"v", "o", "i", "c", "e">>,
     <<"s", "p", "e", "a", "k", "e", "r">>,
     <<"m", "u", "l", "t", "i", "l", "i", "n", "g", "u", "a", "l", " ", "s", "p", "e", "e", "c", "h">>,
     <<"s", "p", "e", "e", "c", "h", " ", "r", "e", "c", "o", "g", "n", "i", "t", "i", "o", "n">>,
     <<"i", "m", "a", "g", "e">>,
     <<"v", "i", "s", "u", "a", "l">>,
     <<"v", "i", "d", "e", "o">>,
     <<"p", "i", "x", "e", "l">>,
     <<"d", "i", "f", "f", "u", "s", "i", "o", "n">>,
     <<"a", "u", "t", "o", "r", "e", "g", "r", "e", "s", "s", "i", "v", "e", " ", "i", "m", "a", "g", "e">>,
     <<"i", "m", "a", "g", "e", " ", "g", "e", "n", "e", "r", "a", "t", "i", "o", "n">>,
     <<"i", "m", "a", "g", "e", " ", "m", "o", "d", "e", "l">>,
     <<"r", "o", "b", "o", "t">>,
     <<"e", "m", "b", "o", "d", "i", "e", "d">>,
     <<"m", "o", "t", "o", "r">>,
     <<"s", "e", "n", "s", "o", "r">>,
     <<"d", "n", "a">>,
     <<"p", "r", "o", "t", "e", "i", "n">>,
     <<"g", "e", "n", "o", "m", "e">>,
     <<"c", "h", "e", "m", "i", "c", "a", "l">>,
     <<"m", "o", "l", "e", "c", "u", "l", "a", "r">>,
     <<"m", "u", "s", "i", "c">>,
     <<"m", "i", "d", "i">>,
     <<"p", "o", "i", "n", "t", " ", "c", "l", "o", "u", "d">>,
     <<"3", "d">>,
     <<"l", "i", "d", "a", "r">>,
     <<"v", "o", "x", "e", "l">>,
     <<"m", "e", "s", "h">>,
     <<"n", "e", "u", "r", "a", "l", " ", "r", "a", "d", "i", "a", "n", "c", "e">>
  >>

RECURSIVE CountPlain(_, _)
CountPlain(keywords, text) ==
  IF keywords = <<>> THEN 0
  ELSE (IF Contains(Head(keywords), text) THEN 1 ELSE 0)
       + CountPlain(Tail(keywords), text)

\* variant: one keyword anywhere in the text is enough
classify_topic_SingleHit(paper) ==
  LET title == Lower(get(paper, "title", <<>>))
      abstract == Lower(get(paper, "abstract", <<>>))
      text == title \o <<" ">> \o abstract
      title_other == CountPlain(OTHER_KEYWORDS, title)
      other_score == CountPlain(OTHER_KEYWORDS, text)
  IN IF title_other >= 1 THEN "other"
     ELSE IF other_score >= 1 THEN "other"
     ELSE "text"

classify_topic(paper) ==
  LET title == Lower(get(paper, "title", <<>>))
      abstract == Lower(get(paper, "abstract", <<>>))
      text == title \o <<" ">> \o abstract
      title_other == CountPlain(OTHER_KEYWORDS, title)
      other_score == CountPlain(OTHER_KEYWORDS, text)
  IN IF title_other >= 1 THEN "other"
     ELSE IF other_score >= 2 THEN "other"
     ELSE "text"

(***************************************************************************)
(* Ranking: list.sort(key=(relevance_score, published), reverse=True) is   *)
(* a stable sort, so records with equal keys keep their order.             *)
(***************************************************************************)
\* key(p) < key(q) for the tuples (relevance_score, published)
KeyLess(p, q) ==
  \/ p["relevance_score"] < q["relevance_score"]
  \/ /\ p["relevance_score"] = q["relevance_score"]
     /\ StrLess(get(p, "published", <<>>), get(q, "published", <<>>))

\* variant: x goes in front of the elements with an equal key (not stable)
RECURSIVE InsertDesc_Unstable(_, _, _)
InsertDesc_Unstable(h, s, x) ==
  IF s = <<>> THEN <<x>>
  ELSE IF ~KeyLess(h[x], h[Head(s)]) THEN <<x>> \o s
  ELSE <<Head(s)>> \o InsertDesc_Unstable(h, Tail(s), x)

\* x goes in front of the first element whose key is smaller than its own
RECURSIVE InsertDesc(_, _, _)
InsertDesc(h, s, x) ==
  IF s = <<>> THEN <<x>>
  ELSE IF KeyLess(h[Head(s)], h[x]) THEN <<x>> \o s
  ELSE <<Head(s)>> \o InsertDesc(h, Tail(s), x)

RECURSIVE SortDesc(_, _)
SortDesc(h, s) ==
  IF s = <<>> THEN <<>>
  ELSE InsertDesc(h, SortDesc(h, SubSeq(s, 1, Len(s) - 1)), s[Len(s)])

\* s[:n] and s[n:] of Python, n negative counting from the end
SliceIndex(s, n) ==
  IF n >= 0 THEN Min2(n, Len(s))
  ELSE IF Len(s) + n > 0 THEN Len(s) + n ELSE 0

SliceTo(s, n) == SubSeq(s, 1, SliceIndex(s, n))

\* variant: the record at the split is lost
SliceFrom_SkipOne(s, n) == SubSeq(s, SliceIndex(s, n) + 2, Len(s))

SliceFrom(s, n) == SubSeq(s, SliceIndex(s, n) + 1, Len(s))

Range(s) == { s[i] : i \in 1..Len(s) }

ACADEMIC == {"arxiv", "semantic_scholar", "google_scholar"}

\* variant: a record without a source counts as academic
IsAcademic_MissingSource(p) == "source" \notin DOMAIN p \/ p["source"] \in ACADEMIC

\* p.get("source") in (...): a missing source is None, which is in no tuple
IsAcademic(p) == "source" \in DOMAIN p /\ p["source"] \in ACADEMIC

(***************************************************************************)
(* categorize_selections.  p.get("title") is None for a record without a   *)
(* title, and None differs from every text: the value is modelled as the   *)
(* empty tuple, a title t as <<t>>.                                        *)
(***************************************************************************)
TextPapersCap == 5
TextBlogsCap == 3
OtherPapersCap == 3

GetOrNone(p, k) == IF k \in DOMAIN p THEN <<p[k]>> ELSE <<>>

\* p.get("topic") == topic
HasTopic(p, topic) == "topic" \in DOMAIN p /\ p["topic"] = topic

\* [p for p in papers if p.get("source") in (...)]
AcademicOf(h, list) ==
  LET Test(o) == IsAcademic(h[o]) IN SelectSeq(list, Test)

\* [p for p in papers if p.get("source") not in (...)]
NonAcademicOf(h, list) ==
  LET Test(o) == ~IsAcademic(h[o]) IN SelectSeq(list, Test)

\* variant: the slice is missing
InitialSection_Uncapped(h, list, topic, cap) ==
  LET Test(o) == HasTopic(h[o], topic) IN SelectSeq(list, Test)

\* [p for p in list if p.get("topic") == topic][:cap]
InitialSection(h, list, topic, cap) ==
  LET Test(o) == HasTopic(h[o], topic) IN SliceTo(SelectSeq(list, Test), cap)

\* the loop "for p in academic" from its i-th record on: a record whose
\* title is not selected yet and whose topic fits is appended, and the loop
\* breaks when the section holds cap records
RECURSIVE FillLoop(_, _, _, _, _, _, _)
FillLoop(h, academic, i, section, selected_titles, topic, cap) ==
  IF i > Len(academic)
  THEN [section |-> section, selected_titles |-> selected_titles]
  ELSE LET p == h[academic[i]]
       IN IF GetOrNone(p, "title") \notin selected_titles /\ HasTopic(p, topic)
          THEN LET appended == Append(section, academic[i])
                   added == selected_titles \cup { GetOrNone(p, "title") }
               IN IF Len(appended) >= cap
                  THEN [section |-> appended, selected_titles |-> added]
                  ELSE FillLoop(h, academic, i + 1, appended, added, topic, cap)
          ELSE FillLoop(h, academic, i + 1, section, selected_titles, topic,
                        cap)

\* variant: the loop starts with no title selected
FillSection_NoneSelected(h, academic, section, selected_titles, topic, cap) ==
  IF Len(section) < cap
  THEN FillLoop(h, academic, 1, section, {}, topic, cap)
  ELSE [section |-> section, selected_titles |-> selected_titles]

\* "if len(section) < cap:" and the loop under it
FillSection(h, academic, section, selected_titles, topic, cap) ==
  IF Len(section) < cap
  THEN FillLoop(h, academic, 1, section, selected_titles, topic, cap)
  ELSE [section |-> section, selected_titles |-> selected_titles]

categorize_selections(h, list) ==
  LET academic == AcademicOf(h, list)
      non_academic == NonAcademicOf(h, list)
      text_papers == InitialSection(h, academic, "text", TextPapersCap)
      text_blogs == InitialSection(h, non_academic, "text", TextBlogsCap)
      other_papers == InitialSection(h, academic, "other", OtherPapersCap)
      selected_titles ==
        { GetOrNone(h[o], "title") :
            o \in Range(text_papers \o text_blogs \o other_papers) }
      filled_text == FillSection(h, academic, text_papers, selected_titles,
                                 "text", TextPapersCap)
      filled_other == FillSection(h, academic, other_papers,
                                  filled_text.selected_titles, "other",
                                  OtherPapersCap)
  IN [text_papers |-> filled_text.section,
      text_blogs |-> text_blogs,
      other_papers |-> filled_other.section]

(***************************************************************************)
(* filter_and_rank, in the three parts of its body: deduplicate and score  *)
(* (they depend on the input and the keyword lists only), filter and sort  *)
(* (min_relevance), return the first max_items (in the action).            *)
(***************************************************************************)
\* variant: the score is added to the score the record carries
RECURSIVE ScoreLoop_Accumulate(_, _, _, _, _)
ScoreLoop_Accumulate(h, list, k, primary_keywords, secondary_keywords) ==
  IF k = 0 THEN h
  ELSE [ScoreLoop_Accumulate(h, list, k - 1, primary_keywords,
                             secondary_keywords)
          EXCEPT ![list[k]] =
            Put(@, "relevance_score",
                get(@, "relevance_score", 0)
                + compute_relevance_score(@, primary_keywords,
                                          secondary_keywords))]

\* for paper in papers: paper["relevance_score"] = compute_relevance_score(..)
RECURSIVE ScoreLoop(_, _, _, _, _)
ScoreLoop(h, list, k, primary_keywords, secondary_keywords) ==
  IF k = 0 THEN h
  ELSE [ScoreLoop(h, list, k - 1, primary_keywords, secondary_keywords)
          EXCEPT ![list[k]] =
            Put(@, "relevance_score",
                compute_relevance_score(@, primary_keywords,
                                        secondary_keywords))]

\* papers = deduplicate_papers(papers), then the scoring loop
DedupAndScore(h, papers, primary_keywords, secondary_keywords) ==
  LET d == deduplicate_papers(h, papers)
  IN [heap |-> ScoreLoop(d.heap, d.unique, Len(d.unique), primary_keywords,
                         secondary_keywords),
      unique |-> d.unique]

\* variant: a record scoring exactly min_relevance is dropped
FilterByRelevance_Strict(h, list, min_relevance) ==
  SelectSeq(list, LAMBDA o : h[o]["relevance_score"] > min_relevance)

\* papers = [p for p in papers if p["relevance_score"] >= min_relevance]
FilterByRelevance(h, list, min_relevance) ==
  SelectSeq(list, LAMBDA o : h[o]["relevance_score"] >= min_relevance)

\* the filter, then papers.sort(...)
FilterAndSort(h, list, min_relevance) ==
  SortDesc(h, FilterByRelevance(h, list, min_relevance))

(***************************************************************************)
(* filter_and_rank_with_rest, in the same three parts.                     *)
(***************************************************************************)
\* for paper in papers: relevance_score and topic are set
RECURSIVE ScoreTopicLoop(_, _, _, _, _)
ScoreTopicLoop(h, list, k, primary_keywords, secondary_keywords) ==
  IF k = 0 THEN h
  ELSE [ScoreTopicLoop(h, list, k - 1, primary_keywords, secondary_keywords)
          EXCEPT ![list[k]] =
            Put(Put(@, "relevance_score",
                    compute_relevance_score(@, primary_keywords,
                                            secondary_keywords)),
                "topic", classify_topic(@))]

DedupScoreAndClassify(h, papers, primary_keywords, secondary_keywords) ==
  LET d == deduplicate_papers(h, papers)
  IN [heap |-> ScoreTopicLoop(d.heap, d.unique, Len(d.unique),
                              primary_keywords, secondary_keywords),
      unique |-> d.unique]

\* variant: the reserved records follow the remaining ones
AllRanked_ReservedLast(h, list, min_relevance) ==
  LET filtered == FilterByRelevance(h, list, min_relevance)
      academic == SortDesc(h, SelectSeq(filtered,
                                LAMBDA o : IsAcademic(h[o])))
      non_academic == SortDesc(h, SelectSeq(filtered,
                                    LAMBDA o : ~IsAcademic(h[o])))
      reserved == SliceTo(non_academic, 2)
      remaining == SortDesc(h, academic \o SliceFrom(non_academic, 2))
  IN remaining \o reserved

\* variant: no slot is reserved, all records are sorted together
AllRanked_NoReserve(h, list, min_relevance) ==
  SortDesc(h, FilterByRelevance(h, list, min_relevance))

\* variant: the remaining records are concatenated without the last sort
AllRanked_NoResort(h, list, min_relevance) ==
  LET filtered == FilterByRelevance(h, list, min_relevance)
      academic == SortDesc(h, SelectSeq(filtered,
                                LAMBDA o : IsAcademic(h[o])))
      non_academic == SortDesc(h, SelectSeq(filtered,
                                    LAMBDA o : ~IsAcademic(h[o])))
      reserved == SliceTo(non_academic, 2)
      remaining == academic \o SliceFrom(non_academic, 2)
  IN reserved \o remaining

\* the filter, the academic / non-academic lists, the reserved slots:
\* all_ranked = reserved + remaining
AllRanked(h, list, min_relevance) ==
  LET filtered == FilterByRelevance(h, list, min_relevance)
      academic == SortDesc(h, SelectSeq(filtered,
                                LAMBDA o : IsAcademic(h[o])))
      non_academic == SortDesc(h, SelectSeq(filtered,
                                    LAMBDA o : ~IsAcademic(h[o])))
      reserved == SliceTo(non_academic, 2)
      remaining == SortDesc(h, academic \o SliceFrom(non_academic, 2))
  IN reserved \o remaining

(***************************************************************************)
(* Inputs.  Texts, dates and the records the input lists are drawn from.   *)
(***************************************************************************)
S_tok == <<"t", "o", "k">>
S_toke == <<"t", "o", "k", "e">>
S_token == <<"t", "o", "k", "e", "n">>
S_TokBang == <<"T", "o", "k", "!">>
S_bpe == <<"b", "p", "e">>
S_BPE == <<"B", "P", "E">>
S_x_bpe == <<"x", " ", "b", "p", "e">>
S_bpe_x == <<"b", "p", "e", " ", "x">>
S_dna == <<"d", "n", "a">>
S_x_dna == <<"x", " ", "d", "n", "a">>
S_llm == <<"l", "l", "m">>
S_bpe_llm_x == <<"b", "p", "e", " ", "l", "l", "m", " ", "x">>
S_3d_asr == <<"3", "d", " ", "a", "s", "r">>
D_jan10 == <<"2", "0", "2", "5", "-", "0", "1", "-", "1", "0">>
D_jan15 == <<"2", "0", "2", "5", "-", "0", "1", "-", "1", "5">>
D_malformed == <<"n", "/", "a">>

Rec(title, abstract, authors, published, source) ==
  [title |-> title, abstract |-> abstract, authors |-> authors,
   published |-> published, source |-> source]

\* the records of the general specification: titles that match in a chain
\* (tok ~ toke ~ token, tok and token do not match), titles equal after
\* normalisation (tok, Tok!), ties in score and date, academic and
\* non-academic sources, a malformed date, a record with absent fields
Pool ==
  { Rec(S_tok, <<>>, <<"A">>, D_jan15, "arxiv"),
    Rec(S_toke, S_llm, <<>>, D_jan10, "web"),
    Put(Rec(S_token, S_bpe, <<"A", "B">>, D_jan15, "semantic_scholar"),
        "citation_count", 12),
    Rec(S_TokBang, <<>>, <<>>, D_malformed, "lesswrong"),
    Rec(S_bpe, <<>>, <<"A">>, D_jan15, "huggingface_blog"),
    Rec(S_dna, S_tok, <<>>, D_jan10, "google_scholar"),
    Put(Rec(S_x_dna, S_llm, <<"A">>, D_jan10, "web"), "citation_count", 0),
    Rec(S_bpe_x, <<>>, <<>>, D_jan10, "alignment_forum"),
    [title |-> S_x_bpe] }

\* the records of the ranking specification: titles that do not match one
\* another, three academic and three non-academic records
RankPool ==
  { Rec(S_tok, <<>>, <<"A">>, D_jan15, "arxiv"),
    Put(Rec(S_token, S_bpe, <<"A", "B">>, D_jan15, "semantic_scholar"),
        "citation_count", 12),
    Rec(S_dna, S_tok, <<>>, D_jan10, "google_scholar"),
    Rec(S_bpe, <<>>, <<"A">>, D_jan15, "huggingface_blog"),
    Rec(S_bpe_x, <<>>, <<>>, D_jan10, "alignment_forum"),
    [title |-> S_x_bpe] }

\* the records of the scorer's specification: one record, any combination
\* of title, abstract and citation count
ScoreTitles == { <<>>, S_tok, S_token, S_BPE, S_llm }
ScoreAbstracts == { <<>>, S_tok, S_bpe_llm_x, S_3d_asr }
ScoreCitations == { -3, 0, 4, 10, 25 }

ScorePool ==
  { [title |-> t, abstract |-> a, citation_count |-> c, source |-> "arxiv"] :
      t \in ScoreTitles, a \in ScoreAbstracts, c \in ScoreCitations }
  \cup { [title |-> t, source |-> "web"] : t \in ScoreTitles }
  \cup { [abstract |-> a, citation_count |-> 4] : a \in ScoreAbstracts }

\* keyword lists of the configuration: the configured shape; single letters
\* that reach every cap of the scorer; empty lists
ConfiguredKeywords == [primary |-> <<S_tok, S_BPE>>, secondary |-> <<S_llm>>]

KeywordConfigs ==
  { ConfiguredKeywords,
    [primary |-> << <<"t">>, <<"o">>, <<"K">>, <<"e">> >>,
     secondary |-> << <<"l">>, <<"m">>, <<"b">>, <<"p">>, <<"x">>, <<" ">> >>],
    [primary |-> <<>>, secondary |-> <<>>] }

\* the quick test of filter.py: its three records and its keyword lists
T_arxiv_copy ==
  <<"T", "o", "k", "e", "n", "i", "z", "a", "t", "i", "o", "n", " ", "I",
    "s", " ", "M", "o", "r", "e", " ", "T", "h", "a", "n", " ", "C", "o",
    "m", "p", "r", "e", "s", "s", "i", "o", "n">>

T_scholar_copy ==
  <<"T", "o", "k", "e", "n", "i", "z", "a", "t", "i", "o", "n", " ", "i",
    "s", " ", "M", "o", "r", "e", " ", "T", "h", "a", "n", " ", "C", "o",
    "m", "p", "r", "e", "s", "s", "i", "o", "n">>

T_survey ==
  <<"A", " ", "S", "u", "r", "v", "e", "y", " ", "o", "f", " ", "D", "e",
    "e", "p", " ", "L", "e", "a", "r", "n", "i", "n", "g", " ", "T", "e",
    "c", "h", "n", "i", "q", "u", "e", "s">>

A_arxiv_copy ==
  <<"W", "e", " ", "s", "t", "u", "d", "y", " ", "t", "h", "e", " ", "e",
    "f", "f", "e", "c", "t", " ", "o", "f", " ", "t", "o", "k", "e", "n",
    "i", "z", "a", "t", "i", "o", "n", " ", "o", "n", " ", "l", "a", "n",
    "g", "u", "a", "g", "e", " ", "m", "o", "d", "e", "l", " ", "p", "e",
    "r", "f", "o", "r", "m", "a", "n", "c", "e", ".", ".", ".">>

A_scholar_copy ==
  <<"W", "e", " ", "s", "t", "u", "d", "y", " ", "t", "h", "e", " ", "e",
    "f", "f", "e", "c", "t", " ", "o", "f", " ", "t", "o", "k", "e", "n",
    "i", "z", "a", "t", "i", "o", "n", " ", "o", "n", " ", "l", "a", "n",
    "g", "u", "a", "g", "e", " ", "m", "o", "d", "e", "l", " ", "p", "e",
    "r", "f", "o", "r", "m", "a", "n", "c", "e", " ", "a", "c", "r", "o",
    "s", "s", " ", "l", "a", "n", "g", "u", "a", "g", "e", "s", ".">>

A_survey ==
  <<"T", "h", "i", "s", " ", "p", "a", "p", "e", "r", " ", "s", "u", "r",
    "v", "e", "y", "s", " ", "v", "a", "r", "i", "o", "u", "s", " ", "d",
    "e", "e", "p", " ", "l", "e", "a", "r", "n", "i", "n", "g", " ", "m",
    "e", "t", "h", "o", "d", "s", ".", ".", ".">>

K_tokenization ==
  <<"t", "o", "k", "e", "n", "i", "z", "a", "t", "i", "o", "n">>

K_tokenizer ==
  <<"t", "o", "k", "e", "n", "i", "z", "e", "r">>

K_language_model ==
  <<"l", "a", "n", "g", "u", "a", "g", "e", " ", "m", "o", "d", "e", "l">>

K_LLM ==
  <<"L", "L", "M">>

ArxivCopy ==
  [title |-> T_arxiv_copy, abstract |-> A_arxiv_copy, source |-> "arxiv",
   published |-> D_jan15]

Survey ==
  [title |-> T_survey, abstract |-> A_survey, source |-> "semantic_scholar",
   published |-> D_jan10]

ScholarCopy ==
  [title |-> T_scholar_copy, abstract |-> A_scholar_copy,
   source |-> "semantic_scholar", published |-> D_jan15]

ScenarioPool == { ArxivCopy, Survey, ScholarCopy }

ScenarioKeywords ==
  [primary |-> <<K_tokenization, K_tokenizer, S_BPE>>,
   secondary |-> <<K_language_model, K_LLM>>]

\* titles for titles_match: every text of up to MaxTitleLen characters over a
\* lower case letter, an upper case letter, a punctuation mark and the blank
TitleChars == { "a", "A", "!", " " }

Titles == UNION { [1..n -> TitleChars] : n \in 0..MaxTitleLen }

TitlePool == { [title |-> t] : t \in Titles }

\* titles for the two argument orders of titles_match: the titles of
\* TitlePool and two titles of seven letters for which the matching blocks
\* SequenceMatcher finds depend on which title is its first sequence
S_aaaaaba == <<"a", "a", "a", "a", "a", "b", "a">>
S_aabaaab == <<"a", "a", "b", "a", "a", "a", "b">>

SwapPool == TitlePool \cup { [title |-> S_aaaaaba], [title |-> S_aabaaab] }

\* a record with the six input fields, the records that lack one of them, the
\* record with no field at all, and a record whose title matches
Without(p, k) == [f \in DOMAIN p \ {k} |-> p[f]]

InputFields ==
  { "title", "abstract", "authors", "citation_count", "published", "source" }

FullRecord ==
  [title |-> S_tok, abstract |-> S_bpe_llm_x, authors |-> <<"A">>,
   citation_count |-> 4, published |-> D_jan15, source |-> "arxiv"]

AbsentPool ==
  { FullRecord, [f \in {} |-> 0], Rec(S_toke, S_llm, <<>>, D_jan10, "web") }
  \cup { Without(FullRecord, k) : k \in InputFields }

\* records for the repeated call: three whose titles match in a chain, with
\* growing richness, a blog post, and a record with a title only
TwicePool ==
  { Rec(S_tok, <<>>, <<"A">>, D_jan15, "arxiv"),
    Rec(S_toke, S_llm, <<>>, D_jan10, "web"),
    Put(Rec(S_token, S_bpe, <<"A", "B">>, D_jan15, "semantic_scholar"),
        "citation_count", 12),
    Rec(S_bpe, <<>>, <<"A">>, D_jan15, "huggingface_blog"),
    [title |-> S_x_bpe] }

\* records for run_pipeline: four with matching titles, two of them with the
\* same title (an academic text record and a blog post on another topic),
\* and an academic record on another topic
PipelinePool ==
  { Rec(S_tok, <<>>, <<"A">>, D_jan15, "arxiv"),
    Rec(S_toke, S_llm, <<>>, D_jan10, "web"),
    Rec(S_token, S_bpe, <<"A", "B">>, D_jan15, "semantic_scholar"),
    Rec(S_token, S_3d_asr, <<>>, D_jan10, "web"),
    Rec(S_dna, S_tok, <<>>, D_jan10, "google_scholar") }

\* records for classify_topic: titles and abstracts with no, one and two
\* entries of OTHER_KEYWORDS, in either case, and an entry ("point cloud")
\* that lies across the joint of title and abstract
S_DNA == <<"D", "N", "A">>
S_point == <<"p", "o", "i", "n", "t">>
S_asr == <<"a", "s", "r">>
S_cloud_DNA == <<"c", "l", "o", "u", "d", " ", "D", "N", "A">>
S_Speech == <<"S", "p", "e", "e", "c", "h">>

ClassifyTitles == { <<>>, S_tok, S_DNA, S_point }
ClassifyAbstracts == { <<>>, S_asr, S_3d_asr, S_cloud_DNA, S_Speech }

ClassifyPool ==
  { [title |-> t, abstract |-> a] : t \in ClassifyTitles, a \in ClassifyAbstracts }
  \cup { [title |-> t] : t \in ClassifyTitles }
  \cup { [abstract |-> a] : a \in ClassifyAbstracts }
  \cup { [source |-> "arxiv"] }

\* records as categorize_selections receives them (the topic is set): two
\* academic text records with different titles, one of them without a
\* title; a blog post with the title of an academic record; an academic
\* record on another topic; a text record without a source
CatPool ==
  { [title |-> S_tok, source |-> "arxiv", topic |-> "text"],
    [source |-> "google_scholar", topic |-> "text"],
    [title |-> S_tok, source |-> "web", topic |-> "text"],
    [title |-> S_bpe, source |-> "semantic_scholar", topic |-> "other"],
    [title |-> S_bpe, topic |-> "text"] }

\* records for the academic test on source: two academic records, a record
\* without a source, and records whose source is the empty text, a tag in
\* another case and a blog tag; the topic is set as categorize_selections
\* expects it
SourcePool ==
  { Put(Put(Rec(S_token, S_bpe, <<"A", "B">>, D_jan15, "semantic_scholar"),
            "citation_count", 12), "topic", "text"),
    Put(Rec(S_dna, S_tok, <<>>, D_jan10, "google_scholar"), "topic", "other"),
    [title |-> S_x_bpe, topic |-> "text"],
    Put(Rec(S_bpe, <<>>, <<"A">>, D_jan15, ""), "topic", "text"),
    Put(Rec(S_bpe_x, <<>>, <<>>, D_jan10, "Arxiv"), "topic", "other"),
    Put(Rec(S_x_dna, S_tok, <<>>, D_jan10, "web"), "topic", "other") }

\* records for the fields a call writes: the records of the repeated call,
\* an academic record without a title and a record without a source, both
\* with the topic set, and a record that carries the three derived fields
\* of an earlier call
FramePool ==
  TwicePool
  \cup { [source |-> "google_scholar", topic |-> "text"],
         [title |-> S_bpe, topic |-> "text"],
         [title |-> S_dna, abstract |-> S_tok, source |-> "arxiv",
          relevance_score |-> 90, topic |-> "text", also_found_in |-> "web"] }

\* records whose title normalizes to the empty string: no title, the empty
\* title, a title of characters that are neither a-z, 0-9 nor whitespace
\* (they stand for any script the pattern deletes), a title of blanks; a
\* title that normalizes to one blank; and an ordinary title
S_marks == <<"#", "!", "?">>
S_blanks == <<" ", " ">>
S_mark_blank_mark == <<"!", " ", "!">>

EmptyTitlePool ==
  { [source |-> "arxiv"],
    [title |-> <<>>, abstract |-> S_tok, source |-> "web"],
    [title |-> S_marks, authors |-> <<"A">>, source |-> "lesswrong"],
    [title |-> S_blanks, source |-> "semantic_scholar"],
    [title |-> S_mark_blank_mark, source |-> "web"],
    Rec(S_tok, <<>>, <<"A">>, D_jan15, "arxiv") }

\* records for the summaries: an academic text record and a blog post, an
\* academic record on another topic and a second blog post; two of them
\* without a url
S_url == <<"u">>

SummaryPool ==
  { Put(Rec(S_tok, <<>>, <<"A">>, D_jan15, "arxiv"), "url", S_url),
    Rec(S_bpe, <<>>, <<"A">>, D_jan15, "huggingface_blog"),
    Put(Rec(S_x_dna, S_tok, <<>>, D_jan10, "google_scholar"), "url", S_url),
    Rec(S_bpe_x, <<>>, <<>>, D_jan10, "alignment_forum") }

\* what one call of summarize_paper does: it returns the text of the reply,
\* or it raises: ValueError without an API key, RuntimeError on an HTTP
\* error, URLError when the connection fails, KeyError on a reply of
\* another shape
S_reply == <<"o", "k">>

SummarizeOutcomes ==
  { [raises |-> "", text |-> S_reply],
    [raises |-> "ValueError", text |-> <<>>],
    [raises |-> "RuntimeError", text |-> <<>>],
    [raises |-> "URLError", text |-> <<>>],
    [raises |-> "KeyError", text |-> <<>>] }

\* min_relevance in hundredths: the default 0.15, and 0.35
DefaultMinRelevance == 15
MinRelevances == { DefaultMinRelevance, 35 }

\* max_items of filter_and_rank: 0..MaxItems and the default 10
DefaultMaxItems == 10
MaxItemsChoices == 0..MaxItems \cup { DefaultMaxItems }

(***************************************************************************)
(* State: the heap of record objects, the input list, the keyword lists of *)
(* the configuration, and what the call was given and returned.  A         *)
(* behaviour is one call of one function on the input list, followed at    *)
(* most by a second call of the same function on the same list.            *)
(***************************************************************************)
VARIABLES
  heap,       \* object id -> dict
  papers,     \* the input list (object ids)
  keywords,   \* config["keywords"]: primary and secondary keyword lists
  pre,        \* the heap before the call
  op,         \* the function called ("init" before the call)
  args,       \* its max_items and min_relevance
  unique,     \* the list deduplicate_papers built
  scores,     \* compute_relevance_score of each input record
  ranked,     \* the list filter_and_rank returned
  top,        \* filter_and_rank_with_rest: first list
  rest,       \* filter_and_rank_with_rest: second list
  topics,     \* classify_topic of each input record
  matched,    \* titles_match of the first two input titles
  sections,   \* the dict categorize_selections returned
  prev,       \* what the first of two calls returned
  web         \* search_web_sources: where it stands, its attempts, its result

results == <<topics, matched, sections, prev, web>>

vars ==
  <<heap, papers, keywords, pre, op, args, unique, scores, ranked, top, rest,
    topics, matched, sections, prev, web>>

NoArgs == [max_items |-> 0, min_relevance |-> 0]

NoSections == [text_papers |-> <<>>, text_blogs |-> <<>>, other_papers |-> <<>>]

NoCall == [op |-> "init"]

\* search_web_sources before it is called
WebIdle ==
  [pc |-> "idle", attempt |-> 0, log |-> <<>>,
   response |-> [json |-> "invalid", items |-> <<>>], returned |-> <<>>]

InitFrom(pool, minLen, maxLen, kwConfigs) ==
  /\ \E n \in minLen..maxLen :
       /\ heap \in [1..n -> pool]
       /\ papers = [i \in 1..n |-> i]
  /\ keywords \in kwConfigs
  /\ pre = heap
  /\ op = "init"
  /\ args = NoArgs
  /\ unique = <<>>
  /\ scores = <<>>
  /\ ranked = <<>>
  /\ top = <<>>
  /\ rest = <<>>
  /\ topics = <<>>
  /\ matched = FALSE
  /\ sections = NoSections
  /\ prev = NoCall
  /\ web = WebIdle

Init == InitFrom(Pool, 0, MaxPapers, {ConfiguredKeywords})

InitScore == InitFrom(ScorePool, 1, 1, KeywordConfigs)

InitRank == InitFrom(RankPool, 0, MaxRankPapers, {ConfiguredKeywords})

CallDeduplicate ==
  /\ op = "init"
  /\ LET d == deduplicate_papers(heap, papers)
     IN /\ heap' = d.heap
        /\ unique' = d.unique
  /\ pre' = heap
  /\ op' = "deduplicate_papers"
  /\ args' = NoArgs
  /\ UNCHANGED <<papers, keywords, scores, ranked, top, rest>>
  /\ UNCHANGED results

CallScore ==
  /\ op = "init"
  /\ scores' = [i \in 1..Len(papers) |->
                  compute_relevance_score(heap[papers[i]], keywords.primary,
                                          keywords.secondary)]
  /\ args' = NoArgs
  /\ pre' = heap
  /\ op' = "compute_relevance_score"
  /\ UNCHANGED <<heap, papers, keywords, unique, ranked, top, rest>>
  /\ UNCHANGED results

\* every call filter_and_rank(papers, primary, secondary, mi, mr) with its
\* outcome: the heap, the deduplicated list and the returned list
FilterAndRankCalls(h, list, kw) ==
  UNION { UNION { { [heap |-> sc.heap, unique |-> sc.unique,
                     result |-> SliceTo(sorted, mi),
                     args |-> [max_items |-> mi, min_relevance |-> mr]] :
                    mi \in MaxItemsChoices,
                    sorted \in { FilterAndSort(sc.heap, sc.unique, mr) } } :
                  mr \in MinRelevances } :
          sc \in { DedupAndScore(h, list, kw.primary, kw.secondary) } }

CallFilterAndRank ==
  /\ op = "init"
  /\ \E r \in FilterAndRankCalls(heap, papers, keywords) :
       /\ heap' = r.heap
       /\ unique' = r.unique
       /\ ranked' = r.result
       /\ args' = r.args
  /\ pre' = heap
  /\ op' = "filter_and_rank"
  /\ UNCHANGED <<papers, keywords, scores, top, rest>>
  /\ UNCHANGED results

\* every call filter_and_rank_with_rest(papers, primary, secondary, mi, mr)
\* with its outcome
FilterAndRankWithRestCalls(h, list, kw) ==
  UNION { UNION { { [heap |-> sc.heap, unique |-> sc.unique,
                     top |-> SliceTo(all_ranked, mi),
                     rest |-> SliceFrom(all_ranked, mi),
                     args |-> [max_items |-> mi, min_relevance |-> mr]] :
                    mi \in 0..MaxItems,
                    all_ranked \in { AllRanked(sc.heap, sc.unique, mr) } } :
                  mr \in MinRelevances } :
          sc \in { DedupScoreAndClassify(h, list, kw.primary, kw.secondary) } }

CallFilterAndRankWithRest ==
  /\ op = "init"
  /\ \E r \in FilterAndRankWithRestCalls(heap, papers, keywords) :
       /\ heap' = r.heap
       /\ unique' = r.unique
       /\ top' = r.top
       /\ rest' = r.rest
       /\ args' = r.args
  /\ pre' = heap
  /\ op' = "filter_and_rank_with_rest"
  /\ UNCHANGED <<papers, keywords, scores, ranked>>
  /\ UNCHANGED results

CallClassify ==
  /\ op = "init"
  /\ topics' = [i \in 1..Len(papers) |-> classify_topic(heap[papers[i]])]
  /\ args' = NoArgs
  /\ pre' = heap
  /\ op' = "classify_topic"
  /\ UNCHANGED <<heap, papers, keywords, unique, scores, ranked, top, rest>>
  /\ UNCHANGED <<matched, sections, prev>>
  /\ UNCHANGED web

CallCategorize ==
  /\ op = "init"
  /\ sections' = categorize_selections(heap, papers)
  /\ args' = NoArgs
  /\ pre' = heap
  /\ op' = "categorize_selections"
  /\ UNCHANGED <<heap, papers, keywords, unique, scores, ranked, top, rest>>
  /\ UNCHANGED <<topics, matched, prev>>
  /\ UNCHANGED web

\* run_pipeline, steps 2 and 3: filter_and_rank_with_rest with max_items 20
\* and the default min_relevance, categorize_selections on its first list,
\* and the rest: the records of both lists whose title is not selected
PipelineMaxItems == 20

\* rest = [p for p in filtered + rest if p.get("title") not in selected_titles]
PipelineRest(h, all_ranked, secs) ==
  LET selected == secs.text_papers \o secs.text_blogs \o secs.other_papers
      selected_titles == { GetOrNone(h[o], "title") : o \in Range(selected) }
      NotSelected(o) == GetOrNone(h[o], "title") \notin selected_titles
  IN SelectSeq(SliceTo(all_ranked, PipelineMaxItems)
               \o SliceFrom(all_ranked, PipelineMaxItems), NotSelected)

\* the outcome of run_pipeline on the collected records; each step of the
\* code is bound once, in the order of the code
run_pipeline(h, all_papers, kw) ==
  CHOOSE r \in
    UNION { UNION { { [heap |-> sc.heap, unique |-> sc.unique,
                       filtered |-> SliceTo(all_ranked, PipelineMaxItems),
                       sections |-> secs,
                       rest |-> PipelineRest(sc.heap, all_ranked, secs)] :
                      secs \in { categorize_selections(
                                   sc.heap,
                                   SliceTo(all_ranked, PipelineMaxItems)) } } :
                    all_ranked \in { AllRanked(sc.heap, sc.unique,
                                               DefaultMinRelevance) } } :
            sc \in { DedupScoreAndClassify(h, all_papers, kw.primary,
                                           kw.secondary) } } : TRUE

CallRunPipeline ==
  /\ op = "init"
  /\ \E r \in { run_pipeline(heap, papers, keywords) } :
       /\ heap' = r.heap
       /\ unique' = r.unique
       /\ top' = r.filtered
       /\ sections' = r.sections
       /\ rest' = r.rest
  /\ args' = [max_items |-> PipelineMaxItems, min_relevance |-> DefaultMinRelevance]
  /\ pre' = heap
  /\ op' = "run_pipeline"
  /\ UNCHANGED <<papers, keywords, scores, ranked, topics, matched, prev>>
  /\ UNCHANGED web

\* the second call of filter_and_rank or filter_and_rank_with_rest, with the
\* arguments of the first call, on the input list as the first call left it
CallAgain ==
  /\ prev = NoCall
  /\ \/ /\ op = "filter_and_rank"
        /\ \E r \in FilterAndRankCalls(heap, papers, keywords) :
             /\ r.args = args
             /\ heap' = r.heap
             /\ unique' = r.unique
             /\ ranked' = r.result
        /\ UNCHANGED <<top, rest>>
     \/ /\ op = "filter_and_rank_with_rest"
        /\ \E r \in FilterAndRankWithRestCalls(heap, papers, keywords) :
             /\ r.args = args
             /\ heap' = r.heap
             /\ unique' = r.unique
             /\ top' = r.top
             /\ rest' = r.rest
        /\ UNCHANGED ranked
  /\ prev' = [op |-> op, heap |-> heap, unique |-> unique, ranked |-> ranked,
              top |-> top, rest |-> rest]
  /\ UNCHANGED <<papers, keywords, pre, op, args, scores>>
  /\ UNCHANGED <<topics, matched, sections>>
  /\ UNCHANGED web

\* titles_match(title1, title2) on the titles of the first two records, read
\* as deduplicate_papers reads them
CallTitlesMatch ==
  /\ op = "init"
  /\ Len(papers) >= 2
  /\ matched' = titles_match(get(heap[papers[1]], "title", <<>>),
                             get(heap[papers[2]], "title", <<>>))
  /\ args' = NoArgs
  /\ pre' = heap
  /\ op' = "titles_match"
  /\ UNCHANGED <<heap, papers, keywords, unique, scores, ranked, top, rest>>
  /\ UNCHANGED <<topics, sections, prev>>
  /\ UNCHANGED web

\* titles_match(title2, title1) after titles_match(title1, title2): the
\* same two titles in the other argument order
CallTitlesMatchSwapped ==
  /\ op = "titles_match"
  /\ prev = NoCall
  /\ matched' = titles_match(get(heap[papers[2]], "title", <<>>),
                             get(heap[papers[1]], "title", <<>>))
  /\ prev' = [op |-> op, matched |-> matched]
  /\ UNCHANGED <<heap, papers, keywords, pre, op, args, unique, scores>>
  /\ UNCHANGED <<ranked, top, rest, topics, sections>>
  /\ UNCHANGED web

\* filter_and_rank_with_rest after filter_and_rank, on the same list with
\* the same keywords and arguments
CallWithRestAfterRank ==
  /\ prev = NoCall
  /\ op = "filter_and_rank"
  /\ \E r \in FilterAndRankWithRestCalls(heap, papers, keywords) :
       /\ r.args = args
       /\ heap' = r.heap
       /\ unique' = r.unique
       /\ top' = r.top
       /\ rest' = r.rest
  /\ prev' = [op |-> op, heap |-> heap, unique |-> unique, ranked |-> ranked,
              top |-> top, rest |-> rest]
  /\ op' = "filter_and_rank_with_rest"
  /\ UNCHANGED <<papers, keywords, pre, args, scores, ranked>>
  /\ UNCHANGED <<topics, matched, sections>>
  /\ UNCHANGED web

(***************************************************************************)
(* summarizer.batch_summarize and the re-split of run_pipeline.            *)
(***************************************************************************)
\* f"*Summary unavailable.* Read the full paper: {paper.get('url', '')}"
S_unavailable ==
  <<"*", "S", "u", "m", "m", "a", "r", "y", " ", "u", "n", "a", "v", "a",
    "i", "l", "a", "b", "l", "e", ".", "*", " ", "R", "e", "a", "d", " ",
    "t", "h", "e", " ", "f", "u", "l", "l", " ", "p", "a", "p", "e", "r",
    ":", " ">>

FallbackSummary(p) == S_unavailable \o get(p, "url", <<>>)

\* the classes "except Exception" catches, of those a call raises
ExceptionClasses == { "ValueError", "RuntimeError", "URLError", "KeyError" }

\* variant: only RuntimeError is caught
Caught_RuntimeErrorOnly(class) == class = "RuntimeError"

\* except Exception as e
Caught(class) == class \in ExceptionClasses

\* the loop "for paper in papers" over the first k records; outcomes[i] is
\* what the i-th call of summarize_paper does.  An exception that is not
\* caught ends the loop.
RECURSIVE SummarizeLoop(_, _, _, _)
SummarizeLoop(h, list, k, outcomes) ==
  IF k = 0 THEN [heap |-> h, raised |-> FALSE]
  ELSE LET st == SummarizeLoop(h, list, k - 1, outcomes)
           paper == list[k]
       IN IF st.raised THEN st
          ELSE IF outcomes[k].raises = ""
          THEN [heap |-> [st.heap EXCEPT ![paper] =
                            Put(@, "summary", outcomes[k].text)],
                raised |-> FALSE]
          ELSE IF Caught(outcomes[k].raises)
          THEN [heap |-> [st.heap EXCEPT ![paper] =
                            Put(@, "summary", FallbackSummary(@))],
                raised |-> FALSE]
          ELSE [heap |-> st.heap, raised |-> TRUE]

\* batch_summarize(papers): the heap after the loop, the returned list
\* (the list it was given) and whether an exception left the function
batch_summarize(h, list, outcomes) ==
  LET st == SummarizeLoop(h, list, Len(list), outcomes)
  IN [heap |-> st.heap, papers |-> list, raised |-> st.raised]

\* text_papers = selected[:n_tp], text_blogs = selected[n_tp:n_tp + n_tb],
\* other_papers = selected[n_tp + n_tb:]
Resplit(selected, n_tp, n_tb) ==
  [text_papers |-> SliceTo(selected, n_tp),
   text_blogs |-> SliceTo(SliceFrom(selected, n_tp), n_tb),
   other_papers |-> SliceFrom(selected, n_tp + n_tb)]

\* run_pipeline, step 3: batch_summarize on the selected records and the
\* re-split of the returned list; an exception that leaves batch_summarize
\* leaves run_pipeline before the re-split
CallBatchSummarize ==
  /\ op = "run_pipeline"
  /\ prev = NoCall
  /\ \E selected \in
         { sections.text_papers \o sections.text_blogs \o sections.other_papers } :
       \E outcomes \in [1..Len(selected) -> SummarizeOutcomes] :
         \E r \in { batch_summarize(heap, selected, outcomes) } :
           /\ heap' = r.heap
           /\ IF r.raised
              THEN /\ sections' = sections
                   /\ op' = "batch_summarize raised"
              ELSE /\ sections' = Resplit(r.papers,
                                          Len(sections.text_papers),
                                          Len(sections.text_blogs))
                   /\ op' = "batch_summarize"
           /\ prev' = [op |-> op, heap |-> heap, sections |-> sections,
                       selected |-> selected, outcomes |-> outcomes]
  /\ UNCHANGED <<papers, keywords, pre, args, unique, scores, ranked, top, rest>>
  /\ UNCHANGED <<topics, matched>>
  /\ UNCHANGED web

(***************************************************************************)
(* collectors/web_search.search_web_sources: the loop of up to three calls *)
(* of the API and the parsing of the reply.                                *)
(***************************************************************************)
\* for attempt in range(3)
MaxAttempts == 3

S_rate_limit ==
  <<"r", "a", "t", "e", "_", "l", "i", "m", "i", "t">>

S_api_error ==
  <<"C", "l", "a", "u", "d", "e", " ", "A", "P", "I", " ", "e", "r", "r",
    "o", "r", " ">>

S_429_rate_limit_error ==
  <<"4", "2", "9", ":", " ", "r", "a", "t", "e", "_", "l", "i", "m", "i",
    "t", "_", "e", "r", "r", "o", "r">>

S_429_over_rate_limit ==
  <<"4", "2", "9", ":", " ", "o", "v", "e", "r", " ", "r", "a", "t", "e",
    "_", "l", "i", "m", "i", "t">>

S_529_overloaded_error ==
  <<"5", "2", "9", ":", " ", "o", "v", "e", "r", "l", "o", "a", "d", "e",
    "d", "_", "e", "r", "r", "o", "r">>

S_400_rate_limit ==
  <<"4", "0", "0", ":", " ", "r", "a", "t", "e", " ", "l", "i", "m", "i",
    "t">>

S_key_not_set ==
  <<"A", "N", "T", "H", "R", "O", "P", "I", "C", "_", "A", "P", "I", "_",
    "K", "E", "Y", " ", "e", "n", "v", "i", "r", "o", "n", "m", "e", "n",
    "t", " ", "v", "a", "r", "i", "a", "b", "l", "e", " ", "n", "o", "t",
    " ", "s", "e", "t">>

S_timed_out ==
  <<"<", "u", "r", "l", "o", "p", "e", "n", " ", "e", "r", "r", "o", "r",
    " ", "t", "i", "m", "e", "d", " ", "o", "u", "t", ">">>

\* the reply of the API by what json.loads makes of it: an array of
\* objects, a text that is no JSON, or JSON of another type
ReplyPosts ==
  [json |-> "array",
   items |-> << [title |-> S_tok, url |-> S_url, summary |-> S_llm,
                 author |-> <<"A">>, published |-> D_jan15,
                 platform |-> "medium"],
                [title |-> S_bpe],
                [title |-> S_bpe_x, url |-> S_url] >>]

ReplyNoPosts == [json |-> "array", items |-> <<>>]

ReplyNoJson == [json |-> "invalid", items |-> <<>>]

ReplyNumber == [json |-> "number", items |-> <<>>]

\* response_text = ""
NoResponse == ReplyNoJson

\* what one call of _call_claude_with_search does: it returns a reply, or
\* it raises ValueError (no API key), RuntimeError with the HTTP status and
\* the error body, or URLError
ApiOutcomes ==
  { [raises |-> "", message |-> <<>>, reply |-> r] :
      r \in { ReplyPosts, ReplyNoPosts, ReplyNoJson, ReplyNumber } }
  \cup { [raises |-> "RuntimeError", message |-> S_api_error \o m,
          reply |-> NoResponse] :
           m \in { S_429_rate_limit_error, S_429_over_rate_limit,
                   S_529_overloaded_error, S_400_rate_limit } }
  \cup { [raises |-> "ValueError", message |-> S_key_not_set,
          reply |-> NoResponse],
         [raises |-> "URLError", message |-> S_timed_out,
          reply |-> NoResponse],
         [raises |-> "URLError", message |-> S_429_over_rate_limit,
          reply |-> NoResponse] }

\* return []
ReturnEmpty(w) == [w EXCEPT !.pc = "returned", !.returned = <<>>]

\* continue: the next value of range(3), or the end of the loop
Continue(w) ==
  IF w.attempt + 1 < MaxAttempts
  THEN [w EXCEPT !.attempt = @ + 1]
  ELSE [w EXCEPT !.pc = "parse"]

\* variant: every RuntimeError is retried
AfterAttempt_RetryAnyRuntimeError(w, outcome) ==
  LET logged == [w EXCEPT !.log = Append(@, outcome)]
  IN IF outcome.raises = ""
     THEN [logged EXCEPT !.pc = "parse", !.response = outcome.reply]
     ELSE IF outcome.raises = "RuntimeError"
     THEN IF w.attempt < 2
          THEN Continue(logged)
          ELSE ReturnEmpty(logged)
     ELSE ReturnEmpty(logged)

\* one pass of the loop body: the call and the two except clauses
AfterAttempt(w, outcome) ==
  LET logged == [w EXCEPT !.log = Append(@, outcome)]
  IN IF outcome.raises = ""
     THEN [logged EXCEPT !.pc = "parse", !.response = outcome.reply]
     ELSE IF outcome.raises = "RuntimeError"
     THEN IF Contains(S_rate_limit, outcome.message) /\ w.attempt < 2
          THEN Continue(logged)
          ELSE ReturnEmpty(logged)
     ELSE ReturnEmpty(logged)

\* an item with a title and a url becomes a WebPost
HasTitleAndUrl(item) ==
  /\ get(item, "title", <<>>) # <<>>
  /\ get(item, "url", <<>>) # <<>>

WebPost(item) ==
  [title |-> item.title,
   authors |-> << get(item, "author", <<"U", "n", "k", "n", "o", "w", "n">>) >>,
   abstract |-> SliceTo(get(item, "summary", <<>>), 500),
   url |-> item.url,
   published |-> get(item, "published", <<>>),
   source |-> "web",
   platform |-> get(item, "platform", "blog")]

RECURSIVE Posts(_)
Posts(items) ==
  IF items = <<>> THEN <<>>
  ELSE IF HasTitleAndUrl(Head(items))
       THEN <<WebPost(Head(items))>> \o Posts(Tail(items))
       ELSE Posts(Tail(items))

\* the second try block: json.loads and the loop over the items; only
\* json.JSONDecodeError is caught
ParseResponse(w) ==
  IF w.response.json = "invalid" THEN ReturnEmpty(w)
  ELSE IF w.response.json = "array"
  THEN [w EXCEPT !.pc = "returned", !.returned = Posts(w.response.items)]
  ELSE [w EXCEPT !.pc = "raised"]

CallSearchWebSources ==
  /\ op = "init"
  /\ web.pc = "idle"
  /\ web' = [web EXCEPT !.pc = "call"]
  /\ op' = "search_web_sources"
  /\ UNCHANGED <<heap, papers, keywords, pre, args, unique, scores, ranked>>
  /\ UNCHANGED <<top, rest, topics, matched, sections, prev>>

\* one attempt: try: ... _call_claude_with_search(...) ... except ...
WebAttempt ==
  /\ web.pc = "call"
  /\ \E outcome \in ApiOutcomes : web' = AfterAttempt(web, outcome)
  /\ UNCHANGED <<heap, papers, keywords, pre, op, args, unique, scores>>
  /\ UNCHANGED <<ranked, top, rest, topics, matched, sections, prev>>

WebParse ==
  /\ web.pc = "parse"
  /\ web' = ParseResponse(web)
  /\ UNCHANGED <<heap, papers, keywords, pre, op, args, unique, scores>>
  /\ UNCHANGED <<ranked, top, rest, topics, matched, sections, prev>>

Next ==
  \/ CallDeduplicate
  \/ CallScore
  \/ CallFilterAndRank
  \/ CallFilterAndRankWithRest

Spec == Init /\ [][Next]_vars

SpecScore == InitScore /\ [][Next]_vars

SpecRank == InitRank /\ [][Next]_vars

\* two calls of filter_and_rank or of filter_and_rank_with_rest in a row
NextTwice == CallFilterAndRank \/ CallFilterAndRankWithRest \/ CallAgain

InitTwice == InitFrom(TwicePool, 0, MaxTwicePapers, {ConfiguredKeywords})

SpecTwice == InitTwice /\ [][NextTwice]_vars

\* every function on lists of records that lack fields
NextAbsent == Next \/ CallClassify \/ CallRunPipeline

InitAbsent == InitFrom(AbsentPool, 0, MaxAbsentPapers, {ConfiguredKeywords})

SpecAbsent == InitAbsent /\ [][NextAbsent]_vars

\* titles_match on every pair of titles
InitMatch == InitFrom(TitlePool, 2, 2, {ConfiguredKeywords})

SpecMatch == InitMatch /\ [][CallTitlesMatch]_vars

\* titles_match on every pair of titles, in both argument orders
NextSwap == CallTitlesMatch \/ CallTitlesMatchSwapped

InitSwap == InitFrom(SwapPool, 2, 2, {ConfiguredKeywords})

SpecSwap == InitSwap /\ [][NextSwap]_vars

\* classify_topic on every list of up to MaxClassifyPapers records
InitClassify == InitFrom(ClassifyPool, 0, MaxClassifyPapers, {ConfiguredKeywords})

SpecClassify == InitClassify /\ [][CallClassify]_vars

\* categorize_selections on every list of up to MaxCatPapers records
InitCategorize == InitFrom(CatPool, 0, MaxCatPapers, {ConfiguredKeywords})

SpecCategorize == InitCategorize /\ [][CallCategorize]_vars

\* filter_and_rank on the lists built from the records of the quick test
InitScenario == InitFrom(ScenarioPool, 0, MaxScenarioPapers, {ScenarioKeywords})

SpecScenario == InitScenario /\ [][CallFilterAndRank]_vars

\* run_pipeline on every list of up to MaxPipelinePapers collected records
InitPipeline == InitFrom(PipelinePool, 0, MaxPipelinePapers, {ConfiguredKeywords})

SpecPipeline == InitPipeline /\ [][CallRunPipeline]_vars

\* the functions that test the source, on lists of up to MaxSourcePapers
\* records
NextSource == CallFilterAndRankWithRest \/ CallCategorize \/ CallRunPipeline

InitSource == InitFrom(SourcePool, 0, MaxSourcePapers, {ConfiguredKeywords})

SpecSource == InitSource /\ [][NextSource]_vars

\* the four core functions that take a list of records
NextFrame ==
  \/ CallDeduplicate
  \/ CallFilterAndRank
  \/ CallFilterAndRankWithRest
  \/ CallCategorize

InitFrame == InitFrom(FramePool, 0, MaxFramePapers, {ConfiguredKeywords})

SpecFrame == InitFrame /\ [][NextFrame]_vars

\* filter_and_rank and then filter_and_rank_with_rest on one list
NextBoth == CallFilterAndRank \/ CallWithRestAfterRank

InitBoth == InitFrom(RankPool, 0, MaxBothPapers, {ConfiguredKeywords})

SpecBoth == InitBoth /\ [][NextBoth]_vars

\* deduplicate_papers on records whose titles normalize to nothing
InitEmptyTitle ==
  InitFrom(EmptyTitlePool, 0, MaxEmptyTitlePapers, {ConfiguredKeywords})

SpecEmptyTitle == InitEmptyTitle /\ [][CallDeduplicate]_vars

\* run_pipeline up to the re-split of the summarized records
NextSummary == CallRunPipeline \/ CallBatchSummarize

InitSummary == InitFrom(SummaryPool, 0, MaxSummaryPapers, {ConfiguredKeywords})

SpecSummary == InitSummary /\ [][NextSummary]_vars

\* search_web_sources, attempt by attempt
NextWeb == CallSearchWebSources \/ WebAttempt \/ WebParse

InitWeb == InitFrom(Pool, 0, 0, KeywordConfigs)

SpecWeb == InitWeb /\ [][NextWeb]_vars

(***************************************************************************)
(* Properties of deduplicate_papers.                                       *)
(***************************************************************************)
TitleOf(o) == get(heap[o], "title", <<>>)

Matching(o1, o2) == titles_match(TitleOf(o1), TitleOf(o2))

Deduplicated == op = "deduplicate_papers"

NoMatchingPair ==
  \A i, j \in 1..Len(unique) : i # j => ~Matching(unique[i], unique[j])

\* titles_match is transitive on the titles of the input list
TransitiveOnInput ==
  \A a, b, c \in Range(papers) :
    Matching(a, b) /\ Matching(b, c) => Matching(a, c)

C2_ExactDuplicatesCollapse ==
  ( /\ Deduplicated
    /\ Len(papers) = 2
    /\ normalize_title(TitleOf(papers[1])) = normalize_title(TitleOf(papers[2])) )
  => /\ Len(unique) = 1
     /\ unique[1] \in Range(papers)
     /\ \A other \in Range(papers) \ {unique[1]} :
          /\ "also_found_in" \in DOMAIN heap[unique[1]]
          /\ heap[unique[1]]["also_found_in"] = get(pre[other], "source", "")

\* two records with different titles, equal after normalisation, and
\* different sources were given
C2_Witness ==
  /\ Deduplicated
  /\ Len(papers) = 2
  /\ TitleOf(papers[1]) # TitleOf(papers[2])
  /\ normalize_title(TitleOf(papers[1])) = normalize_title(TitleOf(papers[2]))
  /\ get(pre[papers[1]], "source", "") # get(pre[papers[2]], "source", "")
  /\ Len(unique) = 1

\* the position of unique at which the k-th input record is accepted or merged
LandedAt(k) ==
  LET st == DedupLoop(pre, papers, k - 1)
      M == MatchingPositions(st.heap, st.unique, papers[k])
  IN IF M = {} THEN Len(st.unique) + 1 ELSE SetMin(M)

\* the k-th input record met an accepted record
Merged(k) == LandedAt(k) <= Len(DedupLoop(pre, papers, k - 1).unique)

\* C3: an incoming record replaces the matching accepted record only when its
\* richness (length of abstract + number of authors) is strictly greater, on
\* equal richness the earlier record stays; so every surviving record is at
\* least as rich as every record merged into its position.
C3_RicherSurvives ==
  Deduplicated =>
    \A k \in 1..Len(papers) :
      /\ Merged(k) =>
           LET existing == DedupLoop(pre, papers, k - 1).unique[LandedAt(k)]
               after == DedupLoop(pre, papers, k).unique[LandedAt(k)]
           IN /\ after \in {existing, papers[k]}
              /\ (after = papers[k] /\ after # existing)
                   <=> Richness(pre[papers[k]]) > Richness(pre[existing])
      /\ Richness(heap[unique[LandedAt(k)]]) >= Richness(pre[papers[k]])

\* a record met an accepted record of equal richness and another record
\* replaced a poorer one
C3_Witness ==
  /\ Deduplicated
  /\ \E k \in 1..Len(papers) :
       /\ Merged(k)
       /\ Richness(pre[papers[k]]) =
            Richness(pre[DedupLoop(pre, papers, k - 1).unique[LandedAt(k)]])
  /\ \E k \in 1..Len(papers) :
       /\ Merged(k)
       /\ DedupLoop(pre, papers, k).unique[LandedAt(k)] = papers[k]

(***************************************************************************)
(* Properties of compute_relevance_score (specification SpecScore).        *)
(***************************************************************************)
Scored == op = "compute_relevance_score"

\* number of entries of a keyword list found in a text, both lowercased
Hits(kws, text) ==
  Cardinality({ k \in 1..Len(kws) : Contains(Lower(kws[k]), Lower(text)) })

TitleAndAbstract(p) ==
  get(p, "title", <<>>) \o <<" ">> \o get(p, "abstract", <<>>)

PrimaryHits(p) == Hits(keywords.primary, TitleAndAbstract(p))
TitleHits(p) == Hits(keywords.primary, get(p, "title", <<>>))
SecondaryHits(p) == Hits(keywords.secondary, TitleAndAbstract(p))
CitationBoost(p) ==
  IF get(p, "citation_count", 0) > 0
  THEN Min2(get(p, "citation_count", 0), 10) ELSE 0

\* C4: the score is min(1.0, min(0.20*P, 0.60) + min(0.15*T, 0.30) +
\* min(0.05*S, 0.20) + C), P primary keywords in title + " " + abstract, T
\* primary keywords in the title, S secondary keywords in title + " " +
\* abstract, C = min(0.01*citation_count, 0.10) for a positive count, else 0;
\* a primary keyword of the title counts in P and in T.
C4_ScoreFormula ==
  Scored =>
    \A i \in 1..Len(papers) :
      LET p == heap[papers[i]]
      IN /\ scores[i] =
              Min2(100, Min2(20 * PrimaryHits(p), 60)
                        + Min2(15 * TitleHits(p), 30)
                        + Min2(5 * SecondaryHits(p), 20)
                        + CitationBoost(p))
         /\ TitleHits(p) <= PrimaryHits(p)

\* a record that reaches every cap: more than three primary hits, more than
\* two of them in the title, more than four secondary hits, more than ten
\* citations, and a sum above 1.0
C4_Witness ==
  /\ Scored
  /\ \E i \in 1..Len(papers) :
       LET p == heap[papers[i]]
       IN /\ PrimaryHits(p) > 3
          /\ TitleHits(p) > 2
          /\ SecondaryHits(p) > 4
          /\ get(p, "citation_count", 0) > 10
          /\ scores[i] = 100

\* C5: for every record, also with a negative citation_count, and every pair
\* of keyword lists, 0.0 <= score <= 1.0.
C5_ScoreBounds ==
  Scored => \A i \in 1..Len(papers) : scores[i] >= 0 /\ scores[i] <= 100

\* a record with a negative citation_count and no keyword hit was scored
C5_Witness ==
  /\ Scored
  /\ \E i \in 1..Len(papers) :
       /\ get(heap[papers[i]], "citation_count", 0) < 0
       /\ PrimaryHits(heap[papers[i]]) = 0
       /\ SecondaryHits(heap[papers[i]]) = 0
       /\ scores[i] = 0

(***************************************************************************)
(* Properties of filter_and_rank.                                          *)
(***************************************************************************)
Ranked == op = "filter_and_rank"

ScoreOf(o) == heap[o]["relevance_score"]

PublishedOf(o) == get(heap[o], "published", <<>>)

\* the records of unique that reach min_relevance
Survivors == { o \in Range(unique) : ScoreOf(o) >= args.min_relevance }

\* o1 is ranked strictly above o2 by (relevance_score, published)
RankedAbove(o1, o2) ==
  \/ ScoreOf(o1) > ScoreOf(o2)
  \/ ScoreOf(o1) = ScoreOf(o2) /\ StrLess(PublishedOf(o2), PublishedOf(o1))

SameKey(o1, o2) ==
  ScoreOf(o1) = ScoreOf(o2) /\ PublishedOf(o1) = PublishedOf(o2)

IndexIn(s, o) == CHOOSE i \in 1..Len(s) : s[i] = o

NoRepeats(s) == \A i, j \in 1..Len(s) : i # j => s[i] # s[j]

\* C6: filter_and_rank returns the first max_items of the ranked survivors
\* scoring >= min_relevance: nothing below min_relevance, at most max_items
\* records, and a survivor is left out only if max_items records ranked at or
\* above it are returned.
C6_TopOfSurvivors ==
  Ranked =>
    /\ Range(ranked) \subseteq Survivors
    /\ NoRepeats(ranked)
    /\ Len(ranked) <= args.max_items
    /\ Len(ranked) = Min2(args.max_items, Cardinality(Survivors))
    /\ \A o \in Survivors \ Range(ranked) :
         /\ Len(ranked) = args.max_items
         /\ \A r \in Range(ranked) : ~RankedAbove(o, r)

\* a record scoring exactly min_relevance is returned, a survivor is left out
\* for max_items and a record is dropped for its score
C6_Witness ==
  /\ Ranked
  /\ \E r \in Range(ranked) : ScoreOf(r) = args.min_relevance
  /\ Survivors \ Range(ranked) # {}
  /\ Range(unique) \ Survivors # {}

\* C7: the output of filter_and_rank is in descending order of
\* relevance_score; equal scores are in descending order of the published
\* string, an empty published last; records equal in both keep the order
\* they had after deduplication.
C7_Order ==
  Ranked =>
    \A i, j \in 1..Len(ranked) :
      i < j =>
        /\ ScoreOf(ranked[i]) >= ScoreOf(ranked[j])
        /\ ScoreOf(ranked[i]) = ScoreOf(ranked[j]) =>
             /\ ~StrLess(PublishedOf(ranked[i]), PublishedOf(ranked[j]))
             /\ PublishedOf(ranked[i]) = <<>> => PublishedOf(ranked[j]) = <<>>
        /\ SameKey(ranked[i], ranked[j]) =>
             IndexIn(unique, ranked[i]) < IndexIn(unique, ranked[j])

\* the output holds two records equal in score and date, and a record with
\* an empty published after a record of the same score with a date
C7_Witness ==
  /\ Ranked
  /\ \E i, j \in 1..Len(ranked) :
       i < j /\ SameKey(ranked[i], ranked[j])
  /\ \E i, j \in 1..Len(ranked) :
       /\ i < j
       /\ ScoreOf(ranked[i]) = ScoreOf(ranked[j])
       /\ PublishedOf(ranked[i]) # <<>>
       /\ PublishedOf(ranked[j]) = <<>>

(***************************************************************************)
(* Properties of filter_and_rank_with_rest (specification SpecRank).       *)
(***************************************************************************)
RankedWithRest == op = "filter_and_rank_with_rest"

NonAcademicSurvivors == { o \in Survivors : ~IsAcademic(heap[o]) }

\* C8: reserved slots.  When at least two non-academic records survive with
\* relevance_score >= min_relevance and max_items >= 2, the two non-academic
\* records ranked highest by (relevance_score, published) are in top, however
\* many academic records score higher.
C8_ReservedSlots ==
  ( /\ RankedWithRest
    /\ args.max_items >= 2
    /\ Cardinality(NonAcademicSurvivors) >= 2 )
  => \E a, b \in Range(top) \cap NonAcademicSurvivors :
       /\ a # b
       /\ \A c \in NonAcademicSurvivors \ {a, b} :
            ~RankedAbove(c, a) /\ ~RankedAbove(c, b)

\* max_items = 2, three non-academic survivors, and an academic record that
\* scores higher than the two records of top is in rest
C8_Witness ==
  /\ RankedWithRest
  /\ args.max_items = 2
  /\ Cardinality(NonAcademicSurvivors) >= 3
  /\ Range(top) \subseteq NonAcademicSurvivors
  /\ \E o \in Range(rest) :
       /\ IsAcademic(heap[o])
       /\ \A t \in Range(top) : ScoreOf(o) > ScoreOf(t)

AllReturned == top \o rest

NonIncreasing(s) ==
  \A i, j \in 1..Len(s) : i < j => ~RankedAbove(s[j], s[i])

\* C9 as stated: the reserved and the remaining records are re-sorted
\* together, so top followed by rest is in non-increasing order of
\* (relevance_score, published).
C9_AllSortedTogether == RankedWithRest => NonIncreasing(AllReturned)

\* the number of reserved records
ReservedCount == Min2(2, Cardinality(NonAcademicSurvivors))

\* C9, amended: the remaining academic and non-academic records are sorted
\* together and follow the reserved records, which are not sorted with them:
\* top followed by rest is the (at most two) reserved non-academic records in
\* non-increasing order, followed by all other records in non-increasing
\* order of (relevance_score, published).
C9_ReservedThenSorted ==
  RankedWithRest =>
    /\ Len(AllReturned) >= ReservedCount
    /\ Range(SubSeq(AllReturned, 1, ReservedCount)) \subseteq NonAcademicSurvivors
    /\ NonIncreasing(SubSeq(AllReturned, 1, ReservedCount))
    /\ NonIncreasing(SubSeq(AllReturned, ReservedCount + 1, Len(AllReturned)))

\* two reserved records are followed by an academic record that scores
\* higher and by a non-academic record
C9_Witness ==
  /\ RankedWithRest
  /\ ReservedCount = 2
  /\ Len(AllReturned) >= 4
  /\ ~NonIncreasing(AllReturned)
  /\ \E i, j \in 3..Len(AllReturned) :
       /\ i < j
       /\ IsAcademic(heap[AllReturned[i]])
       /\ ~IsAcademic(heap[AllReturned[j]])

\* C10: for max_items >= 0, top and rest partition the survivors scoring
\* >= min_relevance: each occurs exactly once in top or rest, nothing else
\* occurs, and len(top) = min(max_items, number of survivors).
C10_Partition ==
  (RankedWithRest /\ args.max_items >= 0) =>
    /\ Range(AllReturned) = Survivors
    /\ NoRepeats(AllReturned)
    /\ Len(top) = Min2(args.max_items, Cardinality(Survivors))

\* top and rest are both non-empty and a record was dropped for its score
C10_Witness ==
  /\ RankedWithRest
  /\ top # <<>>
  /\ Len(rest) >= 2
  /\ Range(unique) \ Survivors # {}

(***************************************************************************)
(* Properties of classify_topic.                                           *)
(***************************************************************************)
Classified == op = "classify_topic"

\* the entries of OTHER_KEYWORDS that occur in a text
OtherEntriesIn(text) ==
  { k \in 1..Len(OTHER_KEYWORDS) : Contains(OTHER_KEYWORDS[k], text) }

LoweredTitle(p) == Lower(get(p, "title", <<>>))

LoweredText(p) ==
  Lower(get(p, "title", <<>>)) \o <<" ">> \o Lower(get(p, "abstract", <<>>))

\* C11: classify_topic returns "other" exactly when at least one entry of
\* OTHER_KEYWORDS occurs in the lowercased title, or at least two occur in
\* the lowercased title + " " + abstract; otherwise, including a record
\* with empty or missing title and abstract, it returns "text".
C11_ClassifyTopic ==
  Classified =>
    \A i \in 1..Len(papers) :
      LET p == heap[papers[i]]
          isOther == \/ Cardinality(OtherEntriesIn(LoweredTitle(p))) >= 1
                     \/ Cardinality(OtherEntriesIn(LoweredText(p))) >= 2
      IN topics[i] = (IF isOther THEN "other" ELSE "text")

\* one record is "other" through two entries outside its title, the other
\* holds a single entry outside its title and is "text"
C11_Witness ==
  /\ Classified
  /\ Len(papers) = 2
  /\ LET p == heap[papers[1]]
         q == heap[papers[2]]
     IN /\ OtherEntriesIn(LoweredTitle(p)) = {}
        /\ Cardinality(OtherEntriesIn(LoweredText(p))) = 2
        /\ topics[1] = "other"
        /\ Cardinality(OtherEntriesIn(LoweredText(q))) = 1
        /\ topics[2] = "text"

(***************************************************************************)
(* Properties of categorize_selections.                                    *)
(***************************************************************************)
Categorized == op = "categorize_selections"

\* the list holds records of the input list in input order, none twice
InInputOrder(list) ==
  /\ Range(list) \subseteq Range(papers)
  /\ \A i, j \in 1..Len(list) :
       i < j => IndexIn(papers, list[i]) < IndexIn(papers, list[j])

AcademicWithTopic(topic) ==
  { o \in Range(papers) : IsAcademic(heap[o]) /\ HasTopic(heap[o], topic) }

\* C12: categorize_selections returns text_papers with at most 5 records,
\* all academic with topic text; text_blogs with at most 3 records, all
\* non-academic with topic text; other_papers with at most 3 records, all
\* academic with topic other; each section lists its records in input order.
C12_Sections ==
  Categorized =>
    /\ Len(sections.text_papers) <= 5
    /\ \A o \in Range(sections.text_papers) :
         IsAcademic(heap[o]) /\ HasTopic(heap[o], "text")
    /\ Len(sections.text_blogs) <= 3
    /\ \A o \in Range(sections.text_blogs) :
         ~IsAcademic(heap[o]) /\ HasTopic(heap[o], "text")
    /\ Len(sections.other_papers) <= 3
    /\ \A o \in Range(sections.other_papers) :
         IsAcademic(heap[o]) /\ HasTopic(heap[o], "other")
    /\ InInputOrder(sections.text_papers)
    /\ InInputOrder(sections.text_blogs)
    /\ InInputOrder(sections.other_papers)

\* six academic text records, of which the first five are returned
C12_Witness ==
  /\ Categorized
  /\ Cardinality(AcademicWithTopic("text")) = 6
  /\ sections.text_papers = SubSeq(papers, 1, 5)

\* the values p.get("title") of the records of a section
SectionTitles(section) == { GetOrNone(heap[o], "title") : o \in Range(section) }

\* C13: for every input list, lists with two records of the same title
\* included, no title occurs in more than one of the three sections.
C13_NoSharedTitle ==
  Categorized =>
    /\ SectionTitles(sections.text_papers)
         \cap SectionTitles(sections.text_blogs) = {}
    /\ SectionTitles(sections.text_papers)
         \cap SectionTitles(sections.other_papers) = {}
    /\ SectionTitles(sections.text_blogs)
         \cap SectionTitles(sections.other_papers) = {}

(***************************************************************************)
(* Properties of run_pipeline.                                             *)
(***************************************************************************)
Piped == op = "run_pipeline"

\* how often a record stands in a list
Occurrences(list, o) == Cardinality({ i \in 1..Len(list) : list[i] = o })

\* C14: every record that survives deduplication with relevance_score >=
\* min_relevance ends in exactly one of text_papers, text_blogs,
\* other_papers and the final rest list: in none of them twice, and in no
\* two of them.
C14_ExactlyOnePlace ==
  Piped =>
    \A o \in Range(unique) :
      ScoreOf(o) >= args.min_relevance =>
        Occurrences(sections.text_papers, o)
          + Occurrences(sections.text_blogs, o)
          + Occurrences(sections.other_papers, o)
          + Occurrences(rest, o) = 1

(***************************************************************************)
(* The end-to-end scenario.                                                *)
(***************************************************************************)
\* the input is the arxiv copy followed by the scholar copy and the survey,
\* in either order
ScenarioInput ==
  /\ Len(papers) = 3
  /\ pre[papers[1]] = ArxivCopy
  /\ \/ pre[papers[2]] = ScholarCopy /\ pre[papers[3]] = Survey
     \/ pre[papers[2]] = Survey /\ pre[papers[3]] = ScholarCopy

DefaultArgs ==
  args = [max_items |-> DefaultMaxItems, min_relevance |-> DefaultMinRelevance]

\* C15: on the three records of the scenario, with its keyword lists and the
\* default max_items and min_relevance, filter_and_rank returns exactly one
\* record, the semantic_scholar copy with also_found_in = "arxiv"; the
\* survey scores below 0.15; the survey may stand before or after the
\* second copy.
C15_Scenario ==
  Ranked /\ ScenarioInput /\ DefaultArgs =>
    /\ Len(ranked) = 1
    /\ pre[ranked[1]] = ScholarCopy
    /\ "also_found_in" \in DOMAIN heap[ranked[1]]
    /\ heap[ranked[1]]["also_found_in"] = "arxiv"
    /\ \A o \in Range(unique) :
         pre[o] = Survey => ScoreOf(o) < DefaultMinRelevance

\* the order of the quick test: the survey stands before the second copy
C15_Witness ==
  /\ Ranked
  /\ ScenarioInput
  /\ DefaultArgs
  /\ pre[papers[2]] = Survey
  /\ ranked = <<papers[3]>>
  /\ Len(unique) = 2

(***************************************************************************)
(* Calling twice.                                                          *)
(***************************************************************************)
CalledTwice == prev # NoCall

\* the records a call returned
Returned(r) == Range(r.ranked) \cup Range(r.top) \cup Range(r.rest)

\* C16: a second call of filter_and_rank or filter_and_rank_with_rest on the
\* same input list with the same keywords and arguments, which sees the
\* fields relevance_score, topic and also_found_in the first call wrote,
\* returns the same records in the same order with the same scores.
C16_Idempotent ==
  CalledTwice =>
    /\ ranked = prev.ranked
    /\ top = prev.top
    /\ rest = prev.rest
    /\ \A o \in Returned(prev) :
         heap[o]["relevance_score"] = prev.heap[o]["relevance_score"]

\* the first call merged two records and wrote also_found_in, and both
\* calls returned two records
C16_Witness ==
  /\ CalledTwice
  /\ \E o \in Range(papers) : "also_found_in" \in DOMAIN prev.heap[o]
  /\ Len(prev.unique) < Len(papers)
  /\ Cardinality(Returned(prev)) = 2
  /\ \E o \in Returned(prev) : "topic" \in DOMAIN prev.heap[o]

(***************************************************************************)
(* Records with absent fields.                                             *)
(***************************************************************************)
\* the record with every absent input field set to its empty value
Filled(p) ==
  p @@ [title |-> <<>>, abstract |-> <<>>, authors |-> <<>>,
        citation_count |-> 0, published |-> <<>>, source |-> ""]

FilledHeap == [o \in DOMAIN pre |-> Filled(pre[o])]

\* the fields a call wrote into a record
Written(p) ==
  [f \in DOMAIN p \cap {"relevance_score", "topic", "also_found_in"} |-> p[f]]

SameWritten(h) == \A o \in DOMAIN heap : Written(heap[o]) = Written(h[o])

FilledRanked ==
  CHOOSE r \in FilterAndRankCalls(FilledHeap, papers, keywords) : r.args = args

FilledRankedWithRest ==
  CHOOSE r \in FilterAndRankWithRestCalls(FilledHeap, papers, keywords) :
    r.args = args

\* C17: a record in which any of title, abstract, authors, citation_count,
\* published or source is absent is processed by deduplicate_papers,
\* compute_relevance_score, classify_topic, filter_and_rank,
\* filter_and_rank_with_rest and categorize_selections (called by
\* run_pipeline) as the record with the absent fields set to empty text,
\* the empty list or zero: every call returns what it returns for that
\* record and writes the same fields.
C17_AbsentReadAsEmpty ==
  /\ Deduplicated =>
       LET d == deduplicate_papers(FilledHeap, papers)
       IN unique = d.unique /\ SameWritten(d.heap)
  /\ Scored =>
       scores = [i \in 1..Len(papers) |->
                   compute_relevance_score(FilledHeap[papers[i]],
                                           keywords.primary,
                                           keywords.secondary)]
  /\ Classified =>
       topics = [i \in 1..Len(papers) |-> classify_topic(FilledHeap[papers[i]])]
  /\ Ranked =>
       /\ ranked = FilledRanked.result
       /\ SameWritten(FilledRanked.heap)
  /\ RankedWithRest =>
       /\ top = FilledRankedWithRest.top
       /\ rest = FilledRankedWithRest.rest
       /\ SameWritten(FilledRankedWithRest.heap)
  /\ Piped =>
       LET r == run_pipeline(FilledHeap, papers, keywords)
       IN /\ sections = r.sections
          /\ rest = r.rest
          /\ SameWritten(r.heap)

\* filter_and_rank_with_rest returned a record without a title and a record
\* without a source
C17_Witness ==
  /\ RankedWithRest
  /\ Len(top) = 2
  /\ \E o \in Range(top) : "title" \notin DOMAIN pre[o]
  /\ \E o \in Range(top) : "source" \notin DOMAIN pre[o]

(***************************************************************************)
(* Records without a keyword hit.                                          *)
(***************************************************************************)
ZeroHits(p) == PrimaryHits(p) = 0 /\ SecondaryHits(p) = 0

Output == Range(ranked) \cup Range(top) \cup Range(rest)

DefaultMinRelevanceCall ==
  /\ Ranked \/ RankedWithRest
  /\ args.min_relevance = DefaultMinRelevance

\* C18 as stated: a record with no primary and no secondary keyword gets
\* relevance_score 0, whatever its citation_count, and is absent from the
\* output of filter_and_rank and filter_and_rank_with_rest under the default
\* min_relevance 0.15.
C18_ZeroHitsScoreZero ==
  /\ Scored =>
       \A i \in 1..Len(papers) :
         ZeroHits(heap[papers[i]]) => scores[i] = 0
  /\ DefaultMinRelevanceCall =>
       \A o \in Range(unique) :
         ZeroHits(heap[o]) => ScoreOf(o) = 0 /\ o \notin Output

\* C18, amended: such a record gets as relevance_score its citation boost
\* alone, min(0.01 * citation_count, 0.10) for a positive count and else 0,
\* and is absent from the output of filter_and_rank and
\* filter_and_rank_with_rest under the default min_relevance 0.15.
C18_ZeroHitsScoreBoost ==
  /\ Scored =>
       \A i \in 1..Len(papers) :
         ZeroHits(heap[papers[i]]) => scores[i] = CitationBoost(heap[papers[i]])
  /\ DefaultMinRelevanceCall =>
       \A o \in Range(unique) :
         ZeroHits(heap[o]) =>
           ScoreOf(o) = CitationBoost(heap[o]) /\ o \notin Output

\* filter_and_rank_with_rest dropped a record without a keyword hit, which
\* 25 citations gave the score 0.10
C18_Witness ==
  /\ RankedWithRest
  /\ args.min_relevance = DefaultMinRelevance
  /\ args.max_items > 0
  /\ \E o \in Range(unique) :
       /\ ZeroHits(heap[o])
       /\ get(heap[o], "citation_count", 0) = 25
       /\ ScoreOf(o) = 10
       /\ o \notin Output

(***************************************************************************)
(* Properties of titles_match.                                             *)
(***************************************************************************)
TitlesMatched == op = "titles_match"

Title1 == get(heap[papers[1]], "title", <<>>)
Title2 == get(heap[papers[2]], "title", <<>>)

\* the title lowercased, with every character other than a-z, 0-9 and
\* whitespace deleted
LoweredAndDeleted(t) == RemoveOther(Lower(t))

\* the title without its surrounding whitespace neither begins nor ends
\* with a character that is deleted
EdgesKept(t) ==
  LET s == Strip(Lower(t))
  IN s = <<>> \/ (IsLowerAlnum(s[1]) /\ IsLowerAlnum(s[Len(s)]))

Group(i) == { k \in 1..Len(papers) : LandedAt(k) = i }

\* the input position of the first record of the group
FirstSeen(i) == SetMin(Group(i))

\* C20: deduplicate_papers preserves the order of first occurrence: the
\* surviving record of each group stands at the position the first-seen
\* record of the group took, and of two output records the one whose group
\* was first seen earlier comes first.
C20_FirstOccurrenceOrder ==
  Deduplicated =>
    /\ \A k \in 1..Len(papers) : LandedAt(k) \in 1..Len(unique)
    /\ \A i \in 1..Len(unique) :
         /\ Group(i) # {}
         /\ unique[i] \in { papers[k] : k \in Group(i) }
         /\ Len(DedupLoop(pre, papers, FirstSeen(i) - 1).unique) = i - 1
    /\ \A i, j \in 1..Len(unique) : i < j => FirstSeen(i) < FirstSeen(j)

\* the third record replaced the first one and stands before the second
C20_Witness ==
  /\ Deduplicated
  /\ Len(papers) = 3
  /\ unique = <<papers[3], papers[2]>>
  /\ Group(1) = {1, 3}

(***************************************************************************)
(* The academic test on source (specification SpecSource).                 *)
(***************************************************************************)
\* the source of the record is missing or is a tag outside the three
\* academic tags
OffAcademicTags(o) ==
  \/ "source" \notin DOMAIN heap[o]
  \/ heap[o]["source"] \notin {"arxiv", "semantic_scholar", "google_scholar"}

RankedBySource == op \in {"filter_and_rank_with_rest", "run_pipeline"}

CategorizedBySource == op \in {"categorize_selections", "run_pipeline"}

\* the whole ranking of filter_and_rank_with_rest; run_pipeline asks for 20
\* records, more than a list of the model holds
Ranking == IF op = "run_pipeline" THEN top ELSE top \o rest

\* the list categorize_selections was given
CategorizeInput == IF op = "run_pipeline" THEN top ELSE papers

OffTagSurvivors == { o \in Survivors : OffAcademicTags(o) }

OffTagText(o) == OffAcademicTags(o) /\ HasTopic(heap[o], "text")

\* C21: a record whose source is missing or is a tag outside arxiv,
\* semantic_scholar and google_scholar is non-academic.  In
\* filter_and_rank_with_rest it competes for the two reserved slots: the
\* first places of the ranking (two, or as many as there are such survivors)
\* hold such records, and one that is not there is ranked above neither of
\* them.  In categorize_selections it is never in text_papers or
\* other_papers, and text_blogs holds the first three such records with
\* topic text.
C21_MissingOrUnknownSourceNonAcademic ==
  /\ RankedBySource =>
       LET n == Min2(2, Cardinality(OffTagSurvivors))
       IN /\ Len(Ranking) >= n
          /\ \A i \in 1..n : Ranking[i] \in OffTagSurvivors
          /\ \A o \in OffTagSurvivors :
               \/ \E i \in 1..n : Ranking[i] = o
               \/ \A i \in 1..n : ~RankedAbove(o, Ranking[i])
  /\ CategorizedBySource =>
       /\ \A o \in Range(sections.text_papers) \cup Range(sections.other_papers) :
            ~OffAcademicTags(o)
       /\ sections.text_blogs =
            SliceTo(SelectSeq(CategorizeInput, OffTagText), TextBlogsCap)

\* run_pipeline on three records: a record without a source holds a reserved
\* slot before an academic record that scores higher and is in text_blogs,
\* the academic record is in text_papers, and a record with a blog tag and
\* another topic is in the ranking and in no section
C21_Witness ==
  /\ op = "run_pipeline"
  /\ Len(top) = 3
  /\ "source" \notin DOMAIN heap[top[1]]
  /\ OffAcademicTags(top[2])
  /\ ~OffAcademicTags(top[3])
  /\ ScoreOf(top[3]) > ScoreOf(top[1])
  /\ sections.text_blogs = <<top[1]>>
  /\ sections.text_papers = <<top[3]>>
  /\ sections.other_papers = <<>>

(***************************************************************************)
(* titles_match as a relation (specification SpecSwap).                    *)
(***************************************************************************)
MatchedBothWays == op = "titles_match" /\ prev # NoCall

\* the second call, with the titles in the other order, returned what the
\* first call returned
SameBothWays == MatchedBothWays => matched = prev.matched

\* two titles with one normalized form, the empty string included, match
SameNormalizedMatch ==
  (TitlesMatched /\ normalize_title(Title1) = normalize_title(Title2))
    => matched

\* C22: titles_match is symmetric and reflexive: titles_match(a, b) =
\* titles_match(b, a) for all titles a and b, and titles_match(a, b) is true
\* whenever the normalized forms of a and b are identical, the empty string
\* included.
C22_SymmetricAndReflexive == SameBothWays /\ SameNormalizedMatch

(***************************************************************************)
(* Malformed dates in the ranking (specification Spec).                    *)
(***************************************************************************)
Digits == { "0", "1", "2", "3", "4", "5", "6", "7", "8", "9" }

\* the text has the form YYYY-MM-DD
IsIsoDate(s) ==
  /\ Len(s) = 10
  /\ s[5] = "-"
  /\ s[8] = "-"
  /\ \A i \in {1, 2, 3, 4, 6, 7, 9, 10} : s[i] \in Digits

HasValidDate(o) == IsIsoDate(PublishedOf(o))

HasMalformedDate(o) == PublishedOf(o) # <<>> /\ ~IsIsoDate(PublishedOf(o))

AcademicRecord(o) == IsAcademic(heap[o])

NonAcademicRecord(o) == ~IsAcademic(heap[o])

\* no record with a malformed date stands before a record with a valid date
\* and the same relevance_score
MalformedBelowValid(list) ==
  \A i, j \in 1..Len(list) :
    ( /\ i < j
      /\ ScoreOf(list[i]) = ScoreOf(list[j])
      /\ HasValidDate(list[j]) )
    => ~HasMalformedDate(list[i])

RankedMalformedLow == Ranked => MalformedBelowValid(ranked)

RankedWithRestMalformedLow ==
  RankedWithRest =>
    /\ MalformedBelowValid(SelectSeq(AllReturned, AcademicRecord))
    /\ MalformedBelowValid(SelectSeq(AllReturned, NonAcademicRecord))

\* C23: in the ranking of filter_and_rank and filter_and_rank_with_rest a
\* record whose published value is a malformed string is ordered like a
\* record with empty published: among records of equal relevance_score it
\* stands below every record with a valid YYYY-MM-DD date (in
\* filter_and_rank_with_rest: among the academic and among the non-academic
\* records, which are each sorted before the reserved slots are taken).
C23_MalformedSortsLow == RankedMalformedLow /\ RankedWithRestMalformedLow

(***************************************************************************)
(* The fields a call writes (specification SpecFrame).                     *)
(***************************************************************************)
ListFunctions ==
  { "deduplicate_papers", "filter_and_rank", "filter_and_rank_with_rest",
    "categorize_selections" }

DerivedFields == { "relevance_score", "topic", "also_found_in" }

\* the record has the field after the call exactly if it had it before, with
\* the same value
FieldKept(o, f) ==
  /\ (f \in DOMAIN heap[o]) <=> (f \in DOMAIN pre[o])
  /\ f \in DOMAIN pre[o] => heap[o][f] = pre[o][f]

\* C24: the core functions write only relevance_score, topic and
\* also_found_in on a record: across a call of deduplicate_papers,
\* filter_and_rank, filter_and_rank_with_rest or categorize_selections the
\* title, authors, abstract, url, published, source and citation_count (and
\* every other field but the three) of every input record are unchanged, no
\* record is created or removed, and categorize_selections changes no field
\* at all.
C24_WritesDerivedFieldsOnly ==
  op \in ListFunctions =>
    /\ DOMAIN heap = DOMAIN pre
    /\ \A o \in DOMAIN pre :
         \A f \in (DOMAIN heap[o] \cup DOMAIN pre[o]) \ DerivedFields :
           FieldKept(o, f)
    /\ Categorized => heap = pre

\* filter_and_rank_with_rest merged two records and wrote the three derived
\* fields on the survivor, whose other fields are as before
C24_Witness ==
  /\ RankedWithRest
  /\ \E o \in Range(unique) :
       /\ DerivedFields \cap DOMAIN pre[o] = {}
       /\ DerivedFields \subseteq DOMAIN heap[o]
       /\ InputFields \subseteq DOMAIN pre[o]
       /\ \A f \in InputFields : heap[o][f] = pre[o][f]
  /\ Len(unique) < Len(papers)

(***************************************************************************)
(* The fill loops of categorize_selections (specification SpecCategorize). *)
(***************************************************************************)
AcademicText(o) == IsAcademic(heap[o]) /\ HasTopic(heap[o], "text")

NonAcademicText(o) == ~IsAcademic(heap[o]) /\ HasTopic(heap[o], "text")

AcademicOther(o) == IsAcademic(heap[o]) /\ HasTopic(heap[o], "other")

SetMax(S) == CHOOSE x \in S : \A y \in S : y <= x

\* the input position of the record merged last into position i
LastMerged(i) == SetMax(Group(i))

\* the record that held position i when the last merge began
AcceptedBefore(i) == DedupLoop(pre, papers, LastMerged(i) - 1).unique[i]

\* the record that lost the last merge at position i
LastLoser(i) ==
  IF unique[i] = papers[LastMerged(i)]
  THEN AcceptedBefore(i)
  ELSE papers[LastMerged(i)]

SourceOf(o) == get(pre[o], "source", "")

\* C26: when three or more input records are merged into one position by
\* deduplicate_papers, the survivor's also_found_in is one source, that of
\* the loser of the most recent merge at that position: the sources of the
\* records merged away earlier are overwritten, and a record that replaces
\* the accepted one gets the replaced record's source, not its
\* also_found_in.
C26_LastLoserOnly ==
  Deduplicated =>
    \A i \in 1..Len(unique) :
      Cardinality(Group(i)) >= 3 =>
        /\ "also_found_in" \in DOMAIN heap[unique[i]]
        /\ heap[unique[i]]["also_found_in"] = SourceOf(LastLoser(i))

\* three records in a chain of replacements: the third record survives with
\* the source of the second one, which carries the source of the first
C26_Witness ==
  /\ Deduplicated
  /\ Len(papers) = 3
  /\ unique = <<papers[3]>>
  /\ "also_found_in" \notin DOMAIN pre[papers[2]]
  /\ "also_found_in" \in DOMAIN heap[papers[2]]
  /\ heap[papers[2]]["also_found_in"] = SourceOf(papers[1])
  /\ heap[papers[3]]["also_found_in"] = SourceOf(papers[2])
  /\ SourceOf(papers[1]) # SourceOf(papers[2])

(***************************************************************************)
(* filter_and_rank and filter_and_rank_with_rest on one list               *)
(* (specification SpecBoth).                                               *)
(***************************************************************************)
RankedBoth ==
  op = "filter_and_rank_with_rest" /\ prev # NoCall /\ prev.op = "filter_and_rank"

OneClassOfSurvivors ==
  \/ \A o \in Survivors : IsAcademic(heap[o])
  \/ \A o \in Survivors : ~IsAcademic(heap[o])

\* the list is in descending order of (relevance_score, published), records
\* equal in both in the order of the deduplicated list
SortedStably(list) ==
  \A i, j \in 1..Len(list) :
    i < j =>
      /\ ~RankedAbove(list[j], list[i])
      /\ SameKey(list[i], list[j]) =>
           IndexIn(unique, list[i]) < IndexIn(unique, list[j])

\* C27: when all records that pass the relevance filter are academic, or
\* all are non-academic, filter_and_rank_with_rest agrees with
\* filter_and_rank for the same arguments: top holds the same records in the
\* same order as the output of filter_and_rank, and top followed by rest is
\* the full list of filtered survivors sorted descending by
\* (relevance_score, published).
C27_AgreesOnOneClass ==
  (RankedBoth /\ OneClassOfSurvivors) =>
    /\ top = ranked
    /\ Range(AllReturned) = Survivors
    /\ NoRepeats(AllReturned)
    /\ SortedStably(AllReturned)

\* three non-academic survivors, two of them returned by both functions and
\* the third in rest
C27_Witness ==
  /\ RankedBoth
  /\ Cardinality(Survivors) = 3
  /\ \A o \in Survivors : ~IsAcademic(heap[o])
  /\ args.max_items = 2
  /\ Len(top) = 2
  /\ top = ranked
  /\ Len(rest) = 1
  /\ RankedAbove(top[2], rest[1])

(***************************************************************************)
(* Titles that normalize to the empty string (specification                *)
(* SpecEmptyTitle).                                                        *)
(***************************************************************************)
EmptyNormalized(o) == normalize_title(TitleOf(o)) = <<>>

InOutput(o) == o \in Range(unique)

\* C28: two records whose titles both normalize to the empty string (no
\* title, the empty title, or a title made only of characters outside a-z,
\* 0-9 and whitespace) are duplicates for deduplicate_papers: only one of
\* them is in the output, so the output holds exactly one such record when
\* the input holds any.
C28_EmptyTitlesAreDuplicates ==
  Deduplicated =>
    /\ \A i, j \in 1..Len(papers) :
         ( /\ i # j
           /\ EmptyNormalized(papers[i])
           /\ EmptyNormalized(papers[j]) )
         => ~(InOutput(papers[i]) /\ InOutput(papers[j]))
    /\ (\E i \in 1..Len(papers) : EmptyNormalized(papers[i]))
         => Cardinality({ i \in 1..Len(unique) : EmptyNormalized(unique[i]) }) = 1

\* a record without a title and a record whose title is three marks are
\* merged, the richer one survives; a record whose title normalizes to one
\* blank is kept beside it
C28_Witness ==
  /\ Deduplicated
  /\ Len(papers) = 3
  /\ "title" \notin DOMAIN heap[papers[1]]
  /\ TitleOf(papers[2]) = S_marks
  /\ normalize_title(TitleOf(papers[3])) = <<" ">>
  /\ unique = <<papers[2], papers[3]>>

(***************************************************************************)
(* Summaries (specification SpecSummary).                                  *)
(***************************************************************************)
Summarized == op \in { "batch_summarize", "batch_summarize raised" }

SectionsInOrder == sections.text_papers \o sections.text_blogs \o sections.other_papers

\* C29: batch_summarize never raises when a summarization call fails: it
\* returns the same records in the same order and number, every record
\* carries a summary afterwards (the reply of its call, or the fallback text
\* when the call failed, and the records after a failed call are attempted
\* like the others), relevance_score and topic of every record are
\* unchanged, and the positional re-split of run_pipeline yields the three
\* sections it had before summarization.
C29_SummarizeNeverRaises ==
  Summarized =>
    /\ op = "batch_summarize"
    /\ SectionsInOrder = prev.selected
    /\ \A k \in 1..Len(prev.selected) :
         LET o == prev.selected[k]
         IN /\ "summary" \in DOMAIN heap[o]
            /\ heap[o]["summary"] =
                 IF prev.outcomes[k].raises = ""
                 THEN prev.outcomes[k].text
                 ELSE FallbackSummary(prev.heap[o])
            /\ heap[o]["relevance_score"] = prev.heap[o]["relevance_score"]
            /\ heap[o]["topic"] = prev.heap[o]["topic"]
    /\ sections = prev.sections

\* three records, one in each section: the first call fails, the second
\* answers, the third fails, and the third record has the fallback text
\* with its url
C29_Witness ==
  /\ op = "batch_summarize"
  /\ Len(prev.selected) = 3
  /\ Len(sections.text_papers) = 1
  /\ Len(sections.text_blogs) = 1
  /\ Len(sections.other_papers) = 1
  /\ prev.outcomes[1].raises = "ValueError"
  /\ prev.outcomes[2].raises = ""
  /\ prev.outcomes[3].raises = "RuntimeError"
  /\ heap[prev.selected[2]]["summary"] = S_reply
  /\ heap[prev.selected[3]]["summary"] = S_unavailable \o S_url

(***************************************************************************)
(* The attempts of search_web_sources (specification SpecWeb).             *)
(***************************************************************************)
Searching == op = "search_web_sources"

RateLimited(outcome) ==
  outcome.raises = "RuntimeError" /\ Contains(S_rate_limit, outcome.message)

Failed(outcome) == outcome.raises # ""

\* C30: search_web_sources calls the API at most three times in one
\* invocation; a further attempt is made only after a RuntimeError whose
\* message contains "rate_limit" on the first or second attempt; any other
\* exception, or a rate-limit error on the third attempt, ends the loop and
\* the function returns an empty list instead of raising.
C30_AtMostThreeAttempts ==
  Searching =>
    /\ Len(web.log) <= 3
    /\ \A k \in 2..Len(web.log) : RateLimited(web.log[k - 1])
    /\ \A k \in 1..Len(web.log) :
         (Failed(web.log[k]) /\ ~(RateLimited(web.log[k]) /\ k < 3))
           => /\ k = Len(web.log)
              /\ web.pc = "returned"
              /\ web.returned = <<>>

\* two rate-limit errors and a third one: three calls, and the function has
\* returned the empty list
C30_Witness ==
  /\ Searching
  /\ Len(web.log) = 3
  /\ \A k \in 1..3 : RateLimited(web.log[k])
  /\ web.pc = "returned"
  /\ web.returned = <<>>

====
